---- MODULE Spec2Model ----
(***************************************************************************)
(* A model of the Mailrise SMTP handler (src/src/mailrise/smtp.py): the    *)
(* RCPT validation, the DATA fan-out over asyncio.gather, the submission   *)
(* of one notification and the temp files of its attachments.              *)
(*                                                                         *)
(* Strings are sequences of one-character strings, so that the regular     *)
(* expressions of the source can be modelled by what they match.           *)
(***************************************************************************)
EXTENDS Integers, Sequences, FiniteSets, TLC

(* ------------------------------ bounds --------------------------------- *)

\* The largest number of accepted recipients of one transaction.
MaxRcpt == 3

\* How many times the notifier may download one attachment object.
MaxDownloads == 2

(* ------------------------------ strings -------------------------------- *)

UpperChars ==
    <<"A", "B", "C", "D", "E", "F", "G", "H", "I", "J", "K", "L", "M",
      "N", "O", "P", "Q", "R", "S", "T", "U", "V", "W", "X", "Y", "Z">>

LowerChars ==
    <<"a", "b", "c", "d", "e", "f", "g", "h", "i", "j", "k", "l", "m",
      "n", "o", "p", "q", "r", "s", "t", "u", "v", "w", "x", "y", "z">>

\* str.lower() on one character.
LowerChar(c) ==
    IF \E i \in 1..26 : UpperChars[i] = c
    THEN LowerChars[CHOOSE i \in 1..26 : UpperChars[i] = c]
    ELSE c

\* str.lower().
Lower(s) == [i \in 1..Len(s) |-> LowerChar(s[i])]

\* The positions of character c in s.
Positions(s, c) == {i \in 1..Len(s) : s[i] = c}

SetMax(S) == CHOOSE x \in S : \A y \in S : y <= x

SetMin(S) == CHOOSE x \in S : \A y \in S : x <= y

\* s[a..b], empty when b < a.
Slice(s, a, b) == IF b < a THEN <<>> ELSE SubSeq(s, a, b)

EmptyStr == <<>>

DefaultDomain == <<"m", "a", "i", "l", "r", "i", "s", "e", ".", "x", "y", "z">>

(* ----------------------------- addresses ------------------------------- *)

\* email.utils.parseaddr, second component, on the two shapes of input the
\* handler meets: "Display Name <addr>" gives addr, a bare addr-spec is
\* returned as it is.
parseaddr(addr) ==
    IF Positions(addr, "<") # {} /\
       \E j \in Positions(addr, ">") : j > SetMin(Positions(addr, "<"))
    THEN LET lt == SetMin(Positions(addr, "<"))
             gt == SetMin({j \in Positions(addr, ">") : j > lt})
         IN  Slice(addr, lt + 1, gt - 1)
    ELSE addr

\* An address split that keeps enclosing quotes in the user (a mutation of
\* parseaddrparts).
parseaddrparts_keeping_quotes(email) ==
    IF Positions(email, "@") = {}
    THEN [user |-> EmptyStr, domain |-> EmptyStr]
    ELSE LET at     == SetMax(Positions(email, "@"))
             before == {i \in Positions(email, "@") : i < at}
             start  == IF before = {} THEN 1 ELSE SetMax(before) + 1
         IN  [user   |-> Slice(email, start, at - 1),
              domain |-> Slice(email, at + 1, Len(email))]

\* re.search(r'(?:"([^"@]*)"|([^@]*))@([^@]*)$', email).  The domain group
\* admits no '@' and is anchored at the end, so the '@' of the pattern is the
\* last '@' of the string; the leftmost start of a match is right after the
\* '@' before it (or the start of the string), where the second alternative
\* always matches.  The first alternative is tried first there and matches
\* when the whole local part is "...", with no quote inside.
parseaddrparts(email) ==
    IF Positions(email, "@") = {}
    THEN [user |-> EmptyStr, domain |-> EmptyStr]
    ELSE LET at     == SetMax(Positions(email, "@"))
             before == {i \in Positions(email, "@") : i < at}
             start  == IF before = {} THEN 1 ELSE SetMax(before) + 1
             local  == Slice(email, start, at - 1)
             quoted == /\ Len(local) >= 2
                       /\ local[1] = "\""
                       /\ local[Len(local)] = "\""
                       /\ \A i \in 2..(Len(local) - 1) : local[i] # "\""
         IN  [user   |-> IF quoted THEN Slice(local, 2, Len(local) - 1)
                         ELSE local,
              domain |-> Slice(email, at + 1, Len(email))]

\* apprise.NotifyType
NotifyTypes == {"info", "success", "warning", "failure"}

SeverityInfo == <<"i", "n", "f", "o">>
SeveritySuccess == <<"s", "u", "c", "c", "e", "s", "s">>
SeverityWarning == <<"w", "a", "r", "n", "i", "n", "g">>
SeverityFailure == <<"f", "a", "i", "l", "u", "r", "e">>

SeverityWords == {SeverityInfo, SeveritySuccess, SeverityWarning, SeverityFailure}

\* re.search(r'(.*)\.(info|success|warning|failure)$', user, re.IGNORECASE):
\* the word, compared without case, ends the string and follows a '.'.
\* group(1) is the text before that '.', group(2) the word as it is written.
SeverityMatches(user) ==
    {w \in SeverityWords :
        /\ Len(user) >= Len(w) + 1
        /\ user[Len(user) - Len(w)] = "."
        /\ Lower(Slice(user, Len(user) - Len(w) + 1, Len(user))) = w}

SeverityMatch(user) ==
    IF SeverityMatches(user) = {}
    THEN [matched |-> FALSE, group1 |-> EmptyStr, group2 |-> EmptyStr]
    ELSE LET w == CHOOSE x \in SeverityMatches(user) : TRUE
         IN  [matched |-> TRUE,
              group1  |-> Slice(user, 1, Len(user) - Len(w) - 1),
              group2  |-> Slice(user, Len(user) - Len(w) + 1, Len(user))]

\* config.Key
Key(user, domain) == [user |-> user, domain |-> domain]

NoKey == Key(EmptyStr, EmptyStr)

\* A parsercpt that keeps the letter case of the domain (a mutation of
\* parsercpt).
parsercpt_keepcase(addr) ==
    LET parts == parseaddrparts(parseaddr(addr))
        match == SeverityMatch(parts.user)
        ntypes == match.group2
    IN  IF parts.user = EmptyStr \/ parts.domain = EmptyStr
        THEN [raised |-> "RecipientError", key |-> NoKey, notify_type |-> "info"]
        ELSE [raised |-> "none",
              key |-> Key(IF match.matched THEN match.group1 ELSE parts.user,
                          parts.domain),
              notify_type |->
                  IF match.matched /\ ntypes = SeveritySuccess THEN "success"
                  ELSE IF match.matched /\ ntypes = SeverityWarning THEN "warning"
                  ELSE IF match.matched /\ ntypes = SeverityFailure THEN "failure"
                  ELSE "info"]

\* A parsercpt that tests the user only (a mutation of parsercpt).
parsercpt_anydomain(addr) ==
    LET parts == parseaddrparts(parseaddr(addr))
        match == SeverityMatch(parts.user)
        ntypes == match.group2
    IN  IF parts.user = EmptyStr
        THEN [raised |-> "RecipientError", key |-> NoKey, notify_type |-> "info"]
        ELSE [raised |-> "none",
              key |-> Key(IF match.matched THEN match.group1 ELSE parts.user,
                          Lower(parts.domain)),
              notify_type |->
                  IF match.matched /\ ntypes = SeveritySuccess THEN "success"
                  ELSE IF match.matched /\ ntypes = SeverityWarning THEN "warning"
                  ELSE IF match.matched /\ ntypes = SeverityFailure THEN "failure"
                  ELSE "info"]

\* smtp.parsercpt.  raised = "RecipientError" stands for the exception;
\* otherwise the record carries the Recipient.
parsercpt(addr) ==
    LET rcpt  == parseaddr(addr)
        parts == parseaddrparts(rcpt)
        match == SeverityMatch(parts.user)
        user  == IF match.matched THEN match.group1 ELSE parts.user
        ntypes == match.group2
        ntype == IF ~match.matched THEN "info"
                 ELSE IF ntypes = SeverityInfo THEN "info"
                 ELSE IF ntypes = SeveritySuccess THEN "success"
                 ELSE IF ntypes = SeverityWarning THEN "warning"
                 ELSE IF ntypes = SeverityFailure THEN "failure"
                 ELSE "info"
    IN  IF parts.user = EmptyStr \/ parts.domain = EmptyStr
        THEN [raised |-> "RecipientError", key |-> NoKey, notify_type |-> "info"]
        ELSE [raised |-> "none",
              key |-> Key(user, Lower(parts.domain)),
              notify_type |-> ntype]

(* ------------------------------ registry ------------------------------- *)

\* fnmatch.fnmatchcase for patterns made of literal characters, '*' and '?'.
RECURSIVE fnmatchcase(_, _)
fnmatchcase(name, pat) ==
    IF pat = <<>> THEN name = <<>>
    ELSE IF Head(pat) = "*"
         THEN \/ fnmatchcase(name, Tail(pat))
              \/ (name # <<>> /\ fnmatchcase(Tail(name), pat))
    ELSE IF name = <<>> THEN FALSE
    ELSE /\ (Head(pat) = "?" \/ Head(pat) = Head(name))
         /\ fnmatchcase(Tail(name), Tail(pat))

\* None, as the result of get_sender.
NoSender == 0

\* A lookup that returns the last matching pair (a mutation of get_sender).
get_sender_last(senders, key) ==
    LET hits == {i \in 1..Len(senders) :
                    /\ fnmatchcase(key.user, senders[i].pattern.user)
                    /\ fnmatchcase(key.domain, senders[i].pattern.domain)}
    IN  IF hits = {} THEN NoSender ELSE SetMax(hits)

\* A lookup that matches the user only (a mutation of get_sender).
get_sender_by_user(senders, key) ==
    LET hits == {i \in 1..Len(senders) :
                    fnmatchcase(key.user, senders[i].pattern.user)}
    IN  IF hits = {} THEN NoSender ELSE SetMin(hits)

\* get_sender: the position, in the list of (pattern, sender) pairs, of the
\* first pair whose user and domain patterns both match the key; NoSender
\* when there is none.  A sender is identified by its position.
get_sender(senders, key) ==
    LET hits == {i \in 1..Len(senders) :
                    /\ fnmatchcase(key.user, senders[i].pattern.user)
                    /\ fnmatchcase(key.domain, senders[i].pattern.domain)}
    IN  IF hits = {} THEN NoSender ELSE SetMin(hits)

(* --------------------------- configuration ----------------------------- *)

\* The (pattern, sender) pairs of the configuration, in the order of the
\* configuration file: the keys "test" and "the*@*".
Senders ==
    << [pattern |-> Key(<<"t", "e", "s", "t">>, DefaultDomain),
        body_format |-> "none"],
       [pattern |-> Key(<<"t", "h", "e", "*">>, <<"*">>),
        body_format |-> "html"] >>

\* The addresses a client sends in RCPT TO: two that are configured, one
\* that cannot be decoded (no domain), one that is not configured.
AddrTest == <<"t", "e", "s", "t", "@", "m", "a", "i", "l", "r", "i", "s", "e",
              ".", "x", "y", "z">>
AddrTheFoxWarning == <<"t", "h", "e", "f", "o", "x", ".", "w", "a", "r", "n", "i",
                       "n", "g", "@", "E", "x", "a", "m", "p", "l", "e", ".",
                       "c", "o", "m">>
AddrBad == <<"b", "a", "d", "@">>
AddrNobody == <<"n", "o", "b", "o", "d", "y", "@", "e", "x", "a", "m", "p", "l",
                "e", ".", "c", "o", "m">>

Addresses == {AddrTest, AddrTheFoxWarning, AddrBad, AddrNobody}

\* parsercpt on each address a client sends.
Recipients == [a \in Addresses |-> parsercpt(a)]

\* smtp.Attachment values of the test emails.
Bridge == [data |-> "jpeg", filename |-> "bridge.jpg"]

\* The outcomes of parsemessage on the emails a client sends: a plain body
\* without and with an attachment, and a multipart body that cannot be read
\* (parsemessage raises UnreadableMultipart).
Messages ==
    { [readable |-> TRUE, body_format |-> "text", attachments |-> <<>>],
      [readable |-> TRUE, body_format |-> "text", attachments |-> <<Bridge>>],
      [readable |-> FALSE, body_format |-> "text", attachments |-> <<>>] }

\* The local variable `notification` of handle_DATA before it is assigned.
Unbound == [readable |-> FALSE, body_format |-> "unbound", attachments |-> <<>>]

(* ------------------------------- state --------------------------------- *)

VARIABLES
    config,        \* MailriseConfig.senders
    phase,         \* "RCPT": before DATA; "DATA": handle_DATA awaits gather;
                   \* "REPLIED": handle_DATA has returned or raised
    rcpt_tos,      \* envelope.rcpt_tos
    lastRcpt,      \* the last call of handle_RCPT: address, reply, rcpt_tos before
    notification,  \* the EmailNotification of handle_DATA
    tasks,         \* the tasks asyncio.gather made of the submit coroutines
    outer,         \* the future gather returns
    reply,         \* what handle_DATA returned, or the exception it raised
    heap,          \* the live AttachMailrise objects
    fs,            \* the temp files that exist
    failedDeletes, \* number of 'Failed to delete attachment file' log lines
    email_msg,     \* the r.EmailMessage given to SimpleRouter.email_to_apprise
    router_pc,     \* the generator: "idle", "running", "exhausted", "raised"
    router_i,      \* the position in email_msg.to of the next addr of the for loop
    yielded,       \* the notifications the generator has yielded
    logged,        \* the logger.error calls of the generator
    fn_call,       \* a call of one of the parsing or lookup functions
    fn_result      \* what that call returned or raised

\* The SMTP handler's variables, without the configuration.
handlerVars == <<phase, rcpt_tos, lastRcpt, notification, tasks, outer, reply,
                 heap, fs, failedDeletes>>

\* The variables of a run of SimpleRouter.email_to_apprise.
routerVars == <<email_msg, router_pc, router_i, yielded, logged>>

\* The variables of a call of a parsing or lookup function.
fnVars == <<fn_call, fn_result>>

vars == <<config, handlerVars, routerVars, fnVars>>

NoRcpt == [address |-> EmptyStr, reply |-> "none", before |-> <<>>]

\* No DATA transaction has begun.
HandlerIdle ==
    /\ phase = "RCPT"
    /\ rcpt_tos = <<>>
    /\ lastRcpt = NoRcpt
    /\ notification = Unbound
    /\ tasks = <<>>
    /\ outer = "none"
    /\ reply = "none"
    /\ heap = <<>>
    /\ fs = {}
    /\ failedDeletes = 0

NoEmail == [to |-> <<>>, body |-> EmptyStr, body_format |-> "text"]

\* email_to_apprise has not been called.
RouterIdle ==
    /\ email_msg = NoEmail
    /\ router_pc = "idle"
    /\ router_i = 0
    /\ yielded = <<>>
    /\ logged = <<>>

NoCall == [op |-> "none"]

\* No parsing or lookup function is being observed.
FnIdle ==
    /\ fn_call = NoCall
    /\ fn_result = NoCall

Init ==
    /\ config = Senders
    /\ HandlerIdle
    /\ RouterIdle
    /\ FnIdle

(* ----------------------------- handle_RCPT ----------------------------- *)

\* handle_RCPT without the lookup of the sender (a mutation of RcptReply).
RcptReplyNoLookup(senders, address) ==
    IF parsercpt(address).raised = "RecipientError"
    THEN "550 not a valid mailrise recipient"
    ELSE "250 OK"

\* The reply of handle_RCPT for an address.
RcptReply(senders, address) ==
    LET rcpt == parsercpt(address)
    IN  IF rcpt.raised = "RecipientError"
        THEN "550 not a valid mailrise recipient"
        ELSE IF get_sender(senders, rcpt.key) = NoSender
        THEN "551 recipient does not exist in configuration file"
        ELSE "250 OK"

\* handle_RCPT appending before it validates (a mutation of RcptAppend).
RcptAppendAlways(tos, address, rcptReply) == Append(tos, address)

\* envelope.rcpt_tos after handle_RCPT.
RcptAppend(tos, address, rcptReply) ==
    IF rcptReply = "250 OK" THEN Append(tos, address) ELSE tos

HandleRCPT(address) ==
    /\ phase = "RCPT"
    /\ Len(rcpt_tos) < MaxRcpt
    /\ LET r == RcptReply(config, address)
       IN  /\ rcpt_tos' = RcptAppend(rcpt_tos, address, r)
           /\ lastRcpt' = [address |-> address, reply |-> r, before |-> rcpt_tos]
    /\ UNCHANGED <<routerVars, fnVars>>
    /\ UNCHANGED <<config, phase, notification, tasks, outer, reply, heap, fs,
                   failedDeletes>>

(* --------------------------- AttachMailrise ---------------------------- *)

\* _mrfile = None
NoFile == 0

\* The temp file the k-th download of object o creates.
TempFile(o, k) == <<o, k>>

\* One AttachMailrise per attachment of the email, kept for all calls of
\* submit (a mutation of NewAttachMailrise).
SharedAttachMailrise(t, i) == <<0, i>>

\* The object AttachMailrise(config, attach) makes for position i of the
\* attachment list in the call of submit that task t runs: a new object for
\* every call and every position.
NewAttachMailrise(t, i) == <<t, i>>

\* AttachMailrise.__init__
FreshObject == [mrfile |-> NoFile, downloads |-> 0]

\* The part of the world the attachment methods act on.
World(h, f, n) == [heap |-> h, fs |-> f, failedDeletes |-> n]

\* AttachMailrise.invalidate: os.remove of the current temp file (a failure
\* is logged), then _mrfile = None; nothing when there is no file.
invalidate(w, o) ==
    LET tfile == w.heap[o].mrfile
    IN  IF tfile # NoFile
        THEN World([w.heap EXCEPT ![o].mrfile = NoFile],
                   w.fs \ {TempFile(o, tfile)},
                   IF TempFile(o, tfile) \in w.fs
                   THEN w.failedDeletes ELSE w.failedDeletes + 1)
        ELSE w

\* A download that does not invalidate first (a mutation of download).
download_keeping_previous(w, o) ==
    LET k == w.heap[o].downloads + 1
    IN  World([w.heap EXCEPT ![o] = [mrfile |-> k, downloads |-> k]],
              w.fs \cup {TempFile(o, k)},
              w.failedDeletes)

\* AttachMailrise.download: invalidate(), then write a new temp file and keep
\* it in _mrfile.
download(w, o) ==
    LET w1 == invalidate(w, o)
        k  == w1.heap[o].downloads + 1
    IN  World([w1.heap EXCEPT ![o] = [mrfile |-> k, downloads |-> k]],
              w1.fs \cup {TempFile(o, k)},
              w1.failedDeletes)

\* for base in attachbase: base.invalidate()
RECURSIVE InvalidateAll(_, _)
InvalidateAll(w, attachbase) ==
    IF attachbase = <<>> THEN w
    ELSE InvalidateAll(invalidate(w, Head(attachbase)), Tail(attachbase))

\* The objects of a finished call of submit are dropped (their files are not).
Forget(h, attachbase) ==
    LET dead == {attachbase[i] : i \in 1..Len(attachbase)}
    IN  [o \in (DOMAIN h) \ dead |-> h[o]]

(* ------------------------------- gather -------------------------------- *)

TaskIds == 1..Len(tasks)

AllStarted(ts) == \A t \in 1..Len(ts) : ts[t].pc # "created"

AllDone(ts) == \A t \in 1..Len(ts) : ts[t].pc \in {"done", "cancelled"}

\* The task of asyncio.gather for one recipient: the coroutine
\* notification.submit(config, rcpt), not yet run.
NewTask(rcpt) ==
    [pc |-> "created", rcpt |-> [key |-> rcpt.key, notify_type |-> rcpt.notify_type],
     attachbase |-> <<>>, notify_calls |-> 0, result |-> "none"]

\* A gather that cancels the unfinished siblings of a task that raised (a
\* mutation of FinishTask).
FinishTaskCancelling(ts, t, res) ==
    [u \in 1..Len(ts) |->
        IF u = t
        THEN [ts[u] EXCEPT !.pc = "done", !.result = res, !.attachbase = <<>>]
        ELSE IF res # "ok" /\ ts[u].pc # "done"
        THEN [ts[u] EXCEPT !.pc = "cancelled", !.result = "CancelledError"]
        ELSE ts[u]]

\* Task t ends with result res ("ok" when submit returns, otherwise the
\* exception it raises).  gather leaves the other tasks alone.
FinishTask(ts, t, res) ==
    [ts EXCEPT ![t].pc = "done", ![t].result = res, ![t].attachbase = <<>>]

\* gather's callback for a finished child: the first exception of a child is
\* set on the outer future at once; the list of results is set when the
\* last child has finished and none has raised.
GatherCallback(out, ts, res) ==
    IF out # "pending" THEN out
    ELSE IF res # "ok" THEN res
    ELSE IF AllDone(ts) THEN "result"
    ELSE "pending"

\* What handle_DATA does with the outcome of `await asyncio.gather(*aws)`.
DataReply(out) ==
    IF out = "result" THEN "250 OK"
    ELSE IF out = "AppriseNotifyFailure" THEN "450 failed to send notification"
    ELSE "raise " \o out

(* ----------------------------- handle_DATA ----------------------------- *)

\* handle_DATA up to `await asyncio.gather(*aws)`.  The SMTP server accepts
\* DATA after at least one accepted RCPT.
HandleDATA(msg) ==
    /\ phase = "RCPT"
    /\ Len(rcpt_tos) >= 1
    /\ lastRcpt' = NoRcpt
    /\ IF ~msg.readable
       THEN \* except UnreadableMultipart: log; notification stays unbound and
            \* notification.subject raises UnboundLocalError
            /\ notification' = Unbound
            /\ phase' = "REPLIED"
            /\ reply' = "raise UnboundLocalError"
            /\ UNCHANGED <<tasks, outer>>
       ELSE IF \E i \in 1..Len(rcpt_tos) : parsercpt(rcpt_tos[i]).raised # "none"
       THEN \* unpacking *aws runs parsercpt for every address
            /\ notification' = msg
            /\ phase' = "REPLIED"
            /\ reply' = "raise RecipientError"
            /\ UNCHANGED <<tasks, outer>>
       ELSE /\ notification' = msg
            /\ phase' = "DATA"
            /\ tasks' = [i \in 1..Len(rcpt_tos) |-> NewTask(parsercpt(rcpt_tos[i]))]
            /\ outer' = "pending"
            /\ UNCHANGED reply
    /\ UNCHANGED <<routerVars, fnVars>>
    /\ UNCHANGED <<config, rcpt_tos, heap, fs, failedDeletes>>

\* A first step of submit that takes the attachments out of the email (a
\* mutation of SubmitStart).
SubmitStartTakingAttachments(t) ==
    /\ t \in TaskIds
    /\ tasks[t].pc = "created"
    /\ \A u \in 1..(t - 1) : tasks[u].pc # "created"
    /\ IF get_sender(config, tasks[t].rcpt.key) = NoSender
       THEN /\ tasks' = FinishTask(tasks, t, "AssertionError")
            /\ outer' = GatherCallback(outer, tasks', "AssertionError")
            /\ UNCHANGED <<heap, notification>>
       ELSE LET n    == Len(notification.attachments)
                objs == [i \in 1..n |-> NewAttachMailrise(t, i)]
                new  == {objs[i] : i \in 1..n} \ DOMAIN heap
            IN  /\ tasks' = [tasks EXCEPT ![t].pc = "notifying",
                                          ![t].attachbase = objs,
                                          ![t].notify_calls = @ + 1]
                /\ heap' = [o \in (DOMAIN heap) \cup new |->
                              IF o \in new THEN FreshObject ELSE heap[o]]
                /\ notification' = [notification EXCEPT !.attachments = <<>>]
                /\ UNCHANGED outer
    /\ UNCHANGED <<routerVars, fnVars>>
    /\ UNCHANGED <<config, phase, rcpt_tos, lastRcpt, reply, fs, failedDeletes>>

\* The first step of submit, up to the call of async_notify.  The event loop
\* runs the first steps of the tasks in the order gather created them.
SubmitStart(t) ==
    /\ t \in TaskIds
    /\ tasks[t].pc = "created"
    /\ \A u \in 1..(t - 1) : tasks[u].pc # "created"
    /\ IF get_sender(config, tasks[t].rcpt.key) = NoSender
       THEN \* assert sender is not None
            /\ tasks' = FinishTask(tasks, t, "AssertionError")
            /\ outer' = GatherCallback(outer, tasks', "AssertionError")
            /\ UNCHANGED heap
       ELSE LET n    == Len(notification.attachments)
                objs == [i \in 1..n |-> NewAttachMailrise(t, i)]
                new  == {objs[i] : i \in 1..n} \ DOMAIN heap
            IN  /\ tasks' = [tasks EXCEPT ![t].pc = "notifying",
                                          ![t].attachbase = objs,
                                          ![t].notify_calls = @ + 1]
                /\ heap' = [o \in (DOMAIN heap) \cup new |->
                              IF o \in new THEN FreshObject ELSE heap[o]]
                /\ UNCHANGED outer
    /\ UNCHANGED <<routerVars, fnVars>>
    /\ UNCHANGED <<config, phase, rcpt_tos, lastRcpt, notification, reply, fs,
                   failedDeletes>>

\* Inside async_notify: the notifier reads attachment i, which downloads it.
NotifierDownload(t, i) ==
    /\ t \in TaskIds
    /\ tasks[t].pc = "notifying"
    /\ i \in 1..Len(tasks[t].attachbase)
    /\ tasks[t].attachbase[i] \in DOMAIN heap
    /\ heap[tasks[t].attachbase[i]].downloads < MaxDownloads
    /\ LET w == download(World(heap, fs, failedDeletes), tasks[t].attachbase[i])
       IN  /\ heap' = w.heap
           /\ fs' = w.fs
           /\ failedDeletes' = w.failedDeletes
    /\ UNCHANGED <<routerVars, fnVars>>
    /\ UNCHANGED <<config, phase, rcpt_tos, lastRcpt, notification, tasks, outer,
                   reply>>

\* async_notify returns res: submit invalidates its attachments and raises
\* AppriseNotifyFailure when res is false.
NotifierReturns(t, res) ==
    /\ t \in TaskIds
    /\ tasks[t].pc = "notifying"
    /\ LET live == SelectSeq(tasks[t].attachbase, LAMBDA o : o \in DOMAIN heap)
           w    == InvalidateAll(World(heap, fs, failedDeletes), live)
           out  == IF res THEN "ok" ELSE "AppriseNotifyFailure"
       IN  /\ heap' = Forget(w.heap, tasks[t].attachbase)
           /\ fs' = w.fs
           /\ failedDeletes' = w.failedDeletes
           /\ tasks' = FinishTask(tasks, t, out)
           /\ outer' = GatherCallback(outer, tasks', out)
    /\ UNCHANGED <<routerVars, fnVars>>
    /\ UNCHANGED <<config, phase, rcpt_tos, lastRcpt, notification, reply>>

\* async_notify raises: the exception leaves submit at line 210, before the
\* loop that invalidates the attachments.
NotifierRaises(t) ==
    /\ t \in TaskIds
    /\ tasks[t].pc = "notifying"
    /\ heap' = Forget(heap, tasks[t].attachbase)
    /\ tasks' = FinishTask(tasks, t, "NotifierError")
    /\ outer' = GatherCallback(outer, tasks', "NotifierError")
    /\ UNCHANGED <<routerVars, fnVars>>
    /\ UNCHANGED <<config, phase, rcpt_tos, lastRcpt, notification, reply, fs,
                   failedDeletes>>

\* handle_DATA resumes from `await asyncio.gather(*aws)` once the outer future
\* is set.  The first steps of all tasks were queued before gather's callback.
HandlerResume ==
    /\ phase = "DATA"
    /\ outer # "pending"
    /\ AllStarted(tasks)
    /\ reply' = DataReply(outer)
    /\ phase' = "REPLIED"
    /\ UNCHANGED <<routerVars, fnVars>>
    /\ UNCHANGED <<config, rcpt_tos, lastRcpt, notification, tasks, outer, heap,
                   fs, failedDeletes>>

Next ==
    \/ \E address \in Addresses : HandleRCPT(address)
    \/ \E msg \in Messages : HandleDATA(msg)
    \/ \E t \in 1..MaxRcpt : SubmitStart(t)
    \/ \E t \in 1..MaxRcpt : \E i \in 1..Len(notification.attachments) :
           NotifierDownload(t, i)
    \/ \E t \in 1..MaxRcpt : \E res \in BOOLEAN : NotifierReturns(t, res)
    \/ \E t \in 1..MaxRcpt : NotifierRaises(t)
    \/ HandlerResume

Spec == Init /\ [][Next]_vars

\* One notifier call ends: it returns true or false, or it raises.
NotifierEnds(t) ==
    \/ \E res \in BOOLEAN : NotifierReturns(t, res)
    \/ NotifierRaises(t)

\* The event loop runs every task that is ready and resumes the handler when
\* the outer future is set; every call of the notifier ends.
FairSpec ==
    /\ Spec
    /\ \A t \in 1..MaxRcpt : WF_vars(SubmitStart(t))
    /\ \A t \in 1..MaxRcpt : WF_vars(NotifierEnds(t))
    /\ WF_vars(HandlerResume)

(* ---------------------- AttachMailrise on its own ---------------------- *)

\* The AttachMailrise objects of one call of submit for an email with three
\* attachments.
AttachObjects == {NewAttachMailrise(1, i) : i \in 1..3}

\* The objects exist; none has been downloaded.
AttachInit ==
    /\ config = Senders
    /\ phase = "RCPT"
    /\ rcpt_tos = <<>>
    /\ lastRcpt = NoRcpt
    /\ notification = Unbound
    /\ tasks = <<>>
    /\ outer = "none"
    /\ reply = "none"
    /\ heap = [o \in AttachObjects |-> FreshObject]
    /\ fs = {}
    /\ failedDeletes = 0
    /\ RouterIdle
    /\ FnIdle

\* A call o.download(); it returns True.
CallDownload(o) ==
    /\ heap[o].downloads < MaxDownloads
    /\ LET w == download(World(heap, fs, failedDeletes), o)
       IN  /\ heap' = w.heap
           /\ fs' = w.fs
           /\ failedDeletes' = w.failedDeletes
    /\ fn_call' = [op |-> "download", object |-> o,
                   before |-> World(heap, fs, failedDeletes)]
    /\ fn_result' = [op |-> "download", value |-> TRUE]
    /\ UNCHANGED <<config, phase, rcpt_tos, lastRcpt, notification, tasks, outer,
                   reply, routerVars>>

\* A call o.invalidate(); it returns None.
CallInvalidate(o) ==
    /\ LET w == invalidate(World(heap, fs, failedDeletes), o)
       IN  /\ heap' = w.heap
           /\ fs' = w.fs
           /\ failedDeletes' = w.failedDeletes
    /\ fn_call' = [op |-> "invalidate", object |-> o,
                   before |-> World(heap, fs, failedDeletes)]
    /\ fn_result' = [op |-> "invalidate", value |-> "None"]
    /\ UNCHANGED <<config, phase, rcpt_tos, lastRcpt, notification, tasks, outer,
                   reply, routerVars>>

AttachNext ==
    \/ \E o \in AttachObjects : CallDownload(o)
    \/ \E o \in AttachObjects : CallInvalidate(o)

AttachSpec == AttachInit /\ [][AttachNext]_vars

(* ---------------------------- SimpleRouter ----------------------------- *)

\* The largest number of addresses in email.to.
MaxTo == 3

\* simple_router._parsercpt: the code of smtp.parsercpt on _parseaddrparts
\* (the regular expression of util.parseaddrparts), raising ValueError.
router_parsercpt(addr) ==
    LET rcpt  == parseaddr(addr)
        parts == parseaddrparts(rcpt)
        match == SeverityMatch(parts.user)
        user  == IF match.matched THEN match.group1 ELSE parts.user
        ntypes == match.group2
        ntype == IF ~match.matched THEN "info"
                 ELSE IF ntypes = SeverityInfo THEN "info"
                 ELSE IF ntypes = SeveritySuccess THEN "success"
                 ELSE IF ntypes = SeverityWarning THEN "warning"
                 ELSE IF ntypes = SeverityFailure THEN "failure"
                 ELSE "info"
    IN  IF parts.user = EmptyStr \/ parts.domain = EmptyStr
        THEN [raised |-> "ValueError", key |-> NoKey, notify_type |-> "info"]
        ELSE [raised |-> "none",
              key |-> Key(user, Lower(parts.domain)),
              notify_type |-> ntype]

\* re.search found nothing.
NoMatch == 0

\* re.search(pattern, body, re.IGNORECASE | re.MULTILINE) for a pattern of
\* literal characters: the leftmost position of body where the pattern
\* stands, letters compared without case; NoMatch when there is none.
search(pattern, body) ==
    LET hits == {q \in 1..(Len(body) - Len(pattern) + 1) :
                    Lower(SubSeq(body, q, q + Len(pattern) - 1)) = Lower(pattern)}
    IN  IF hits = {} THEN NoMatch ELSE SetMin(hits)

\* matched_body.group(0)
group0(pattern, body) ==
    LET q == search(pattern, body)
    IN  SubSeq(body, q, q + Len(pattern) - 1)

PatternOk == <<"o", "k">>

\* The senders of a SimpleRouter.  body_pattern is <<>> for None and holds
\* the pattern otherwise.
RouterSendersPlain ==
    << [pattern |-> Key(<<"t", "e", "s", "t">>, DefaultDomain),
        body_format |-> "none", body_pattern |-> <<>>],
       [pattern |-> Key(<<"t", "h", "e", "*">>, <<"*">>),
        body_format |-> "html", body_pattern |-> <<>>] >>

RouterSendersPattern ==
    << [pattern |-> Key(<<"t", "e", "s", "t">>, DefaultDomain),
        body_format |-> "none", body_pattern |-> <<PatternOk>>],
       [pattern |-> Key(<<"t", "h", "e", "*">>, <<"*">>),
        body_format |-> "html", body_pattern |-> <<>>] >>

\* Senders that configure the formats markdown and text.
RouterSendersFormats ==
    << [pattern |-> Key(<<"t", "e", "s", "t">>, DefaultDomain),
        body_format |-> "markdown", body_pattern |-> <<>>],
       [pattern |-> Key(<<"t", "h", "e", "*">>, <<"*">>),
        body_format |-> "text", body_pattern |-> <<>>] >>

RouterConfigs == {RouterSendersPlain, RouterSendersPattern, RouterSendersFormats}

\* All lists of at most n addresses.
AddressLists(n) == UNION {[1..k -> Addresses] : k \in 0..n}

BodyOk == <<"A", "l", "l", " ", "O", "K">>
BodyDown == <<"d", "o", "w", "n">>
BodyOkTwice == <<"O", "k", ",", " ", "o", "k">>

\* The emails given to the router.
Emails ==
    {[to |-> l, body |-> b, body_format |-> f] :
        l \in AddressLists(MaxTo), b \in {BodyOk, BodyDown, BodyOkTwice},
        f \in {"text", "html"}}

\* Lines 129-154 with the whole body for a body_pattern that matches nothing
\* (a mutation of RouterNotification).
RouterNotificationWholeBody(senders, msg, i, rcpt, sender) ==
    LET pat == senders[sender].body_pattern
    IN  [kind |-> "yield", index |-> i, sender |-> sender,
         to |-> rcpt.key,
         body |-> IF pat # <<>> /\ search(pat[1], msg.body) # NoMatch
                  THEN group0(pat[1], msg.body)
                  ELSE msg.body,
         body_format |->
             IF senders[sender].body_format # "none"
             THEN senders[sender].body_format
             ELSE msg.body_format,
         notify_type |-> rcpt.notify_type]

\* Lines 129-154 with the format of the email before that of the sender (a
\* mutation of RouterNotification).
RouterNotificationDetectedFormat(senders, msg, i, rcpt, sender) ==
    LET pat == senders[sender].body_pattern
    IN  IF pat # <<>> /\ search(pat[1], msg.body) = NoMatch
        THEN [kind |-> "raise"]
        ELSE [kind |-> "yield", index |-> i, sender |-> sender,
              to |-> rcpt.key,
              body |-> IF pat # <<>> THEN group0(pat[1], msg.body)
                       ELSE msg.body,
              body_format |->
                  IF msg.body_format # "none"
                  THEN msg.body_format
                  ELSE senders[sender].body_format,
              notify_type |-> rcpt.notify_type]

\* Lines 129-154 for a recipient whose sender was found: the ValueError of
\* a body_pattern that matches nothing, or the notification that is yielded.
RouterNotification(senders, msg, i, rcpt, sender) ==
    LET pat == senders[sender].body_pattern
    IN  IF pat # <<>> /\ search(pat[1], msg.body) = NoMatch
        THEN [kind |-> "raise"]
        ELSE [kind |-> "yield", index |-> i, sender |-> sender,
              to |-> rcpt.key,
              body |-> IF pat # <<>> THEN group0(pat[1], msg.body)
                       ELSE msg.body,
              body_format |->
                  IF senders[sender].body_format # "none"
                  THEN senders[sender].body_format
                  ELSE msg.body_format,
              notify_type |-> rcpt.notify_type]

\* Lines 124-127: a recipient without sender is logged and skipped.
RouterLookup(senders, msg, i, rcpt, sender) ==
    IF sender = NoSender
    THEN [kind |-> "log", msg |-> "Recipient is not configured", index |-> i]
    ELSE RouterNotification(senders, msg, i, rcpt, sender)

\* Lines 119-124 without the try around _parsercpt.
RouterRecipientUncaught(senders, msg, i, rcpt) ==
    IF rcpt.raised = "ValueError"
    THEN [kind |-> "raise"]
    ELSE RouterLookup(senders, msg, i, rcpt, get_sender(senders, rcpt.key))

\* Lines 119-124: an address that cannot be decoded is logged and skipped.
RouterRecipient(senders, msg, i, rcpt) ==
    IF rcpt.raised = "ValueError"
    THEN [kind |-> "log", msg |-> "Not a valid Mailrise address", index |-> i]
    ELSE RouterLookup(senders, msg, i, rcpt, get_sender(senders, rcpt.key))

\* email_to_apprise without the try around _parsercpt (a mutation of
\* RouterOutcome).
RouterOutcomeUncaught(senders, msg, i) ==
    RouterRecipientUncaught(senders, msg, i, router_parsercpt(msg.to[i]))

\* One pass of the body of `for addr in email.to`, for the address at
\* position i: a logged skip, the ValueError of a body_pattern that matches
\* nothing, or the notification that is yielded.
RouterOutcome(senders, msg, i) ==
    RouterRecipient(senders, msg, i, router_parsercpt(msg.to[i]))

\* The call email_to_apprise(logger, email) of a router with some senders.
RouterInit ==
    /\ config \in RouterConfigs
    /\ email_msg \in Emails
    /\ router_pc = "running"
    /\ router_i = 1
    /\ yielded = <<>>
    /\ logged = <<>>
    /\ HandlerIdle
    /\ FnIdle

\* The address is skipped with logger.error and the loop continues.
RouterSkip ==
    /\ router_pc = "running"
    /\ router_i <= Len(email_msg.to)
    /\ LET o == RouterOutcome(config, email_msg, router_i)
       IN  /\ o.kind = "log"
           /\ logged' = Append(logged, o)
    /\ router_i' = router_i + 1
    /\ UNCHANGED <<config, email_msg, router_pc, yielded, handlerVars, fnVars>>

\* The notification of the address is yielded to the consumer.
RouterYield ==
    /\ router_pc = "running"
    /\ router_i <= Len(email_msg.to)
    /\ LET o == RouterOutcome(config, email_msg, router_i)
       IN  /\ o.kind = "yield"
           /\ yielded' = Append(yielded, o)
    /\ router_i' = router_i + 1
    /\ UNCHANGED <<config, email_msg, router_pc, logged, handlerVars, fnVars>>

\* An exception leaves the generator, which is then finished.
RouterRaise ==
    /\ router_pc = "running"
    /\ router_i <= Len(email_msg.to)
    /\ RouterOutcome(config, email_msg, router_i).kind = "raise"
    /\ router_pc' = "raised"
    /\ UNCHANGED <<config, email_msg, router_i, yielded, logged, handlerVars,
                   fnVars>>

\* The for loop ends: StopAsyncIteration.
RouterEnd ==
    /\ router_pc = "running"
    /\ router_i > Len(email_msg.to)
    /\ router_pc' = "exhausted"
    /\ UNCHANGED <<config, email_msg, router_i, yielded, logged, handlerVars,
                   fnVars>>

RouterNext ==
    \/ RouterSkip
    \/ RouterYield
    \/ RouterRaise
    \/ RouterEnd

RouterSpec == RouterInit /\ [][RouterNext]_vars

(* ------------------------- lookups on their own ------------------------ *)

StrThe == <<"t", "h", "e">>
StrStar == <<"*">>
StrTheStar == <<"t", "h", "e", "*">>
StrUpperTheStar == <<"T", "h", "e", "*">>
StrExampleCom == <<"e", "x", "a", "m", "p", "l", "e", ".", "c", "o", "m">>
StrAnything == <<"a", "n", "y", "t", "h", "i", "n", "g">>
StrUser == <<"u", "s", "e", "r">>
StrFox == <<"t", "h", "e", "q", "u", "i", "c", "k", "b", "r", "o", "w", "n",
            "f", "o", "x">>
StrUpperFox == <<"T", "h", "e", "F", "o", "x">>
StrUpperDomain == <<"M", "a", "i", "l", "r", "i", "s", "e", ".", "x", "y", "z">>

\* A sender registered under a pattern.
SenderAt(user, domain) ==
    [pattern |-> Key(user, domain), body_format |-> "none", body_pattern |-> <<>>]

\* The registries of the lookups: the patterns "the*@*" and "*@*" in both
\* orders, the config key "*", and the single patterns.
RegistryTheThenAll == <<SenderAt(StrTheStar, StrStar), SenderAt(StrStar, StrStar)>>
RegistryAllThenThe == <<SenderAt(StrStar, StrStar), SenderAt(StrTheStar, StrStar)>>
RegistryStar == <<SenderAt(StrStar, DefaultDomain)>>
RegistryAll == <<SenderAt(StrStar, StrStar)>>
RegistryThe == <<SenderAt(StrTheStar, StrStar)>>
RegistryUpperThe == <<SenderAt(StrUpperTheStar, StrStar)>>
RegistryUserAtExample ==
    <<SenderAt(StrUser, StrExampleCom), SenderAt(StrTheStar, StrExampleCom),
      SenderAt(StrStar, DefaultDomain)>>

Registries ==
    {RegistryTheThenAll, RegistryAllThenThe, RegistryStar, RegistryAll,
     RegistryThe, RegistryUpperThe, RegistryUserAtExample, RouterSendersPlain}

\* The keys looked up.
LookupKeys ==
    {Key(u, d) : u \in {StrFox, StrAnything, StrUser, StrThe, StrUpperFox},
                 d \in {StrExampleCom, DefaultDomain, StrUpperDomain}}

\* A call get_sender(key) on a router with some registry.
LookupInit ==
    /\ config \in Registries
    /\ fn_call \in {[op |-> "get_sender", key |-> k] : k \in LookupKeys}
    /\ fn_result = NoCall
    /\ HandlerIdle
    /\ RouterIdle

CallGetSender ==
    /\ fn_call.op = "get_sender"
    /\ fn_result = NoCall
    /\ fn_result' = [op |-> "get_sender", value |-> get_sender(config, fn_call.key)]
    /\ UNCHANGED <<config, fn_call, handlerVars, routerVars>>

LookupNext == CallGetSender

LookupSpec == LookupInit /\ [][LookupNext]_vars

(* ------------------------- decoding on its own ------------------------- *)

\* The addresses that are decoded are written from a local part, a
\* severity suffix, the '@' and domain, and are bare or in the form
\* "N <address>".
LocalParts == {<<>>, <<"u">>, <<"u", ".", "v">>, <<"\"", "u", "\"">>}

\* A suffix as it is written and the severity its word spells; lower tells
\* whether it is written in lower case.
Suffixes ==
    { [text |-> <<>>, ntype |-> "info", lower |-> TRUE],
      [text |-> <<".", "i", "n", "f", "o">>, ntype |-> "info", lower |-> TRUE],
      [text |-> <<".", "s", "u", "c", "c", "e", "s", "s">>,
       ntype |-> "success", lower |-> TRUE],
      [text |-> <<".", "w", "a", "r", "n", "i", "n", "g">>,
       ntype |-> "warning", lower |-> TRUE],
      [text |-> <<".", "f", "a", "i", "l", "u", "r", "e">>,
       ntype |-> "failure", lower |-> TRUE],
      [text |-> <<".", "I", "n", "f", "o">>, ntype |-> "info", lower |-> FALSE],
      [text |-> <<".", "S", "U", "C", "C", "E", "S", "S">>,
       ntype |-> "success", lower |-> FALSE],
      [text |-> <<".", "W", "A", "R", "N", "I", "N", "G">>,
       ntype |-> "warning", lower |-> FALSE],
      [text |-> <<".", "F", "a", "i", "l", "u", "r", "e">>,
       ntype |-> "failure", lower |-> FALSE] }

\* What follows the local part: the text, the domain in it and that domain
\* in lower case.
Tails ==
    { [text |-> <<"@", "d", ".", "x">>, domain |-> <<"d", ".", "x">>,
       lowered |-> <<"d", ".", "x">>],
      [text |-> <<"@", "D", ".", "X">>, domain |-> <<"D", ".", "X">>,
       lowered |-> <<"d", ".", "x">>],
      [text |-> <<"@">>, domain |-> <<>>, lowered |-> <<>>],
      [text |-> <<>>, domain |-> <<>>, lowered |-> <<>>] }

Written(local, suffix, tail, named) ==
    LET a == local \o suffix.text \o tail.text
    IN  IF named THEN <<"N", " ", "<">> \o a \o <<">">> ELSE a

\* The same with local part and suffix together in double quotes.
WrittenQuoted(local, suffix, tail, named) ==
    LET a == <<"\"">> \o local \o suffix.text \o <<"\"">> \o tail.text
    IN  IF named THEN <<"N", " ", "<">> \o a \o <<">">> ELSE a

\* The calls of parsercpt and of the router's _parsercpt; quoted tells
\* whether local part and suffix were written together in double quotes.
DecodeCalls ==
    {[op |-> o, addr |-> Written(l, x, t, n), local |-> l, suffix |-> x, tail |-> t,
      quoted |-> FALSE] :
        o \in {"parsercpt", "router_parsercpt"},
        l \in LocalParts, x \in Suffixes, t \in Tails, n \in BOOLEAN}
    \cup
    {[op |-> o, addr |-> WrittenQuoted(l, x, t, n), local |-> l, suffix |-> x,
      tail |-> t, quoted |-> TRUE] :
        o \in {"parsercpt", "router_parsercpt"},
        l \in {<<>>, <<"u">>, <<"u", ".", "v">>}, x \in Suffixes, t \in Tails,
        n \in BOOLEAN}

DecodeInit ==
    /\ config = Senders
    /\ fn_call \in DecodeCalls
    /\ fn_result = NoCall
    /\ HandlerIdle
    /\ RouterIdle

CallParsercpt ==
    /\ fn_call.op = "parsercpt"
    /\ fn_result = NoCall
    /\ fn_result' = [op |-> "parsercpt", value |-> parsercpt(fn_call.addr)]
    /\ UNCHANGED <<config, fn_call, handlerVars, routerVars>>

CallRouterParsercpt ==
    /\ fn_call.op = "router_parsercpt"
    /\ fn_result = NoCall
    /\ fn_result' = [op |-> "router_parsercpt",
                     value |-> router_parsercpt(fn_call.addr)]
    /\ UNCHANGED <<config, fn_call, handlerVars, routerVars>>

DecodeNext ==
    \/ CallParsercpt
    \/ CallRouterParsercpt

DecodeSpec == DecodeInit /\ [][DecodeNext]_vars

(* ------------------------- config keys on their own -------------------- *)

\* A key parser that accepts periods in a bare key (a mutation of
\* parse_simple_key).
parse_simple_key_periods(key) ==
    IF Positions(key, "@") # {}
    THEN LET parts == parseaddrparts(key)
         IN  IF \/ parts.user = EmptyStr
                \/ parts.domain = EmptyStr
                \/ Positions(parts.user, ".") # {}
             THEN [raised |-> "ConfigFileError", key |-> NoKey]
             ELSE [raised |-> "none", key |-> Key(parts.user, Lower(parts.domain))]
    ELSE [raised |-> "none", key |-> Key(key, DefaultDomain)]

\* simple_router._parse_simple_key.  raised = "ConfigFileError" stands for
\* the exception; otherwise the record carries the _Key.
parse_simple_key(key) ==
    IF Positions(key, "@") # {}
    THEN LET parts == parseaddrparts(key)
         IN  IF \/ parts.user = EmptyStr
                \/ parts.domain = EmptyStr
                \/ Positions(parts.user, ".") # {}
             THEN [raised |-> "ConfigFileError", key |-> NoKey]
             ELSE [raised |-> "none", key |-> Key(parts.user, Lower(parts.domain))]
    ELSE IF Positions(key, ".") # {}
    THEN [raised |-> "ConfigFileError", key |-> NoKey]
    ELSE [raised |-> "none", key |-> Key(key, DefaultDomain)]

\* config._parsekey
parsekey(str) ==
    IF Positions(str, "@") # {}
    THEN LET parts == parseaddrparts(str)
         IN  IF \/ parts.user = EmptyStr
                \/ parts.domain = EmptyStr
                \/ Positions(parts.user, ".") # {}
             THEN [raised |-> "ConfigFileError", key |-> NoKey]
             ELSE [raised |-> "none", key |-> Key(parts.user, Lower(parts.domain))]
    ELSE IF Positions(str, ".") # {}
    THEN [raised |-> "ConfigFileError", key |-> NoKey]
    ELSE [raised |-> "none", key |-> Key(str, DefaultDomain)]

\* The config keys are written from a user part and what follows it.  A
\* user part: its text, the user it stands for (without enclosing quotes)
\* and whether it has a period.
KeyUsers ==
    { [text |-> <<>>, user |-> <<>>, periods |-> FALSE],
      [text |-> <<"u">>, user |-> <<"u">>, periods |-> FALSE],
      [text |-> StrUser, user |-> StrUser, periods |-> FALSE],
      [text |-> <<"u", ".", "v">>, user |-> <<"u", ".", "v">>, periods |-> TRUE],
      [text |-> <<"h", "a", "s", ".", "p", "e", "r", "i", "o", "d", "s">>,
       user |-> <<"h", "a", "s", ".", "p", "e", "r", "i", "o", "d", "s">>,
       periods |-> TRUE],
      [text |-> <<"\"", "u", "\"">>, user |-> <<"u">>, periods |-> FALSE] }

\* What follows the user part: the text, how many '@' it has, the domain
\* and the domain in lower case.
KeyTails ==
    { [text |-> <<>>, ats |-> 0, domain |-> <<>>, lowered |-> <<>>],
      [text |-> <<"@">>, ats |-> 1, domain |-> <<>>, lowered |-> <<>>],
      [text |-> <<"@", "d", ".", "x">>, ats |-> 1,
       domain |-> <<"d", ".", "x">>, lowered |-> <<"d", ".", "x">>],
      [text |-> <<"@">> \o <<"E", "x", "a", "m", "p", "l", "e", ".", "c", "o", "m">>,
       ats |-> 1,
       domain |-> <<"E", "x", "a", "m", "p", "l", "e", ".", "c", "o", "m">>,
       lowered |-> StrExampleCom],
      [text |-> <<"@", "b", "@", "c">>, ats |-> 2,
       domain |-> <<"c">>, lowered |-> <<"c">>],
      [text |-> <<"@", "@", "c">>, ats |-> 2,
       domain |-> <<"c">>, lowered |-> <<"c">>] }

\* The calls of _parse_simple_key and of _parsekey.
KeyCalls ==
    {[op |-> o, str |-> u.text \o t.text, user |-> u, tail |-> t] :
        o \in {"parse_simple_key", "parsekey"}, u \in KeyUsers, t \in KeyTails}

KeyInit ==
    /\ config = Senders
    /\ fn_call \in KeyCalls
    /\ fn_result = NoCall
    /\ HandlerIdle
    /\ RouterIdle

CallParseSimpleKey ==
    /\ fn_call.op = "parse_simple_key"
    /\ fn_result = NoCall
    /\ fn_result' = [op |-> "parse_simple_key",
                     value |-> parse_simple_key(fn_call.str)]
    /\ UNCHANGED <<config, fn_call, handlerVars, routerVars>>

CallParsekey ==
    /\ fn_call.op = "parsekey"
    /\ fn_result = NoCall
    /\ fn_result' = [op |-> "parsekey", value |-> parsekey(fn_call.str)]
    /\ UNCHANGED <<config, fn_call, handlerVars, routerVars>>

KeyNext ==
    \/ CallParseSimpleKey
    \/ CallParsekey

KeySpec == KeyInit /\ [][KeyNext]_vars

(* ------------------------------- startup ------------------------------- *)

\* The largest number of entries of the `configs` node.
MaxConfigs == 2

StrTest == <<"t", "e", "s", "t">>

\* The keys written in the `configs` node: "test", "the*@*",
\* "test@mailrise.xyz" (the key of "test" again) and "has.periods".
ConfigKeyStrings ==
    {StrTest, StrTheStar \o <<"@", "*">>, StrTest \o <<"@">> \o DefaultDomain,
     <<"h", "a", "s", ".", "p", "e", "r", "i", "o", "d", "s">>}

\* The `configs` node of the YAML file: something that is not a mapping, or
\* a mapping with its keys in the order of the file.
ConfigNodes ==
    {[mapping |-> FALSE, keys |-> <<>>]} \cup
    {[mapping |-> TRUE, keys |-> l] :
        l \in UNION {[1..k -> ConfigKeyStrings] : k \in 0..MaxConfigs}}

\* A loader raised ConfigFileError.
LoadError == [raised |-> "ConfigFileError", senders |-> <<>>]

\* simple_router.load_from_yaml: ConfigFileError for a node that is not a
\* mapping, for a key that does not parse and for a router without senders.
load_from_yaml(node) ==
    IF ~node.mapping THEN LoadError
    ELSE IF \E i \in 1..Len(node.keys) : parse_simple_key(node.keys[i]).raised # "none"
    THEN LoadError
    ELSE IF Len(node.keys) < 1 THEN LoadError
    ELSE [raised |-> "none",
          senders |-> [i \in 1..Len(node.keys) |->
                          SenderAt(parse_simple_key(node.keys[i]).key.user,
                                   parse_simple_key(node.keys[i]).key.domain)]]

\* The entries of a dict built from the keys in this order: a key that is
\* met again keeps its first place.
DictOrder(keys) ==
    SelectSeq([i \in 1..Len(keys) |-> i],
              LAMBDA i : \A j \in 1..(i - 1) : keys[j] # keys[i])

\* config.load_config, as far as the `configs` node goes: ConfigFileError
\* for a node that is not a mapping and for a key that does not parse; the
\* senders are a dict from Key to Sender, which may be empty.
load_config(node) ==
    IF ~node.mapping THEN LoadError
    ELSE IF \E i \in 1..Len(node.keys) : parsekey(node.keys[i]).raised # "none"
    THEN LoadError
    ELSE LET parsed == [i \in 1..Len(node.keys) |-> parsekey(node.keys[i]).key]
             order  == DictOrder(parsed)
         IN  [raised |-> "none",
              senders |-> [n \in 1..Len(order) |->
                              [pattern |-> parsed[order[n]],
                               body_format |-> "none"]]]

\* What main meets besides the `configs` node: load_encryption returns, or
\* raises ConfigFileError, or returns a decryptor companion that is enabled
\* without password or salt.
EncryptionLoads == {"ok", "ConfigFileError", "companion without password"}

\* The calls of main (with the outcome of controller.start()) and of
\* load_from_yaml.
StartCalls ==
    {[op |-> "main", node |-> n, encryption |-> e, starts |-> b] :
        n \in ConfigNodes, e \in EncryptionLoads, b \in BOOLEAN}
    \cup {[op |-> "load_from_yaml", node |-> n] : n \in ConfigNodes}

\* Where main is, and what has become of the aiosmtpd controller.
Main(pc, controller) == [op |-> "main", pc |-> pc, controller |-> controller]

\* Lines 153-166 of main without the test of the senders (a mutation of
\* main_returns_early).
main_returns_on_encryption_only(senders, encryption) ==
    encryption = "companion without password"

\* Lines 153-166 of main: it returns when there are no senders, and when
\* the companion is enabled without password or salt.
main_returns_early(senders, encryption) ==
    \/ Len(senders) < 1
    \/ encryption = "companion without password"

StartInit ==
    /\ config = <<>>
    /\ fn_call \in StartCalls
    /\ fn_result = NoCall
    /\ HandlerIdle
    /\ RouterIdle

CallLoadFromYaml ==
    /\ fn_call.op = "load_from_yaml"
    /\ fn_result = NoCall
    /\ fn_result' = [op |-> "load_from_yaml", value |-> load_from_yaml(fn_call.node)]
    /\ UNCHANGED <<config, fn_call, handlerVars, routerVars>>

\* main, lines 146-151: the configuration is loaded, or main returns.
MainLoad ==
    /\ fn_call.op = "main"
    /\ fn_result = NoCall
    /\ LET loaded == load_config(fn_call.node)
       IN  IF loaded.raised # "none" \/ fn_call.encryption = "ConfigFileError"
           THEN /\ fn_result' = Main("returned", "none")
                /\ UNCHANGED config
           ELSE /\ fn_result' = Main("loaded", "none")
                /\ config' = loaded.senders
    /\ UNCHANGED <<fn_call, handlerVars, routerVars>>

\* main, lines 153-173.
MainCheck ==
    /\ fn_result = Main("loaded", "none")
    /\ fn_result' = IF main_returns_early(config, fn_call.encryption)
                    THEN Main("returned", "none")
                    ELSE Main("checked", "none")
    /\ UNCHANGED <<config, fn_call, handlerVars, routerVars>>

\* main, lines 175-204: the Controller is constructed around the handler.
MainConstruct ==
    /\ fn_result = Main("checked", "none")
    /\ fn_result' = Main("constructed", "constructed")
    /\ UNCHANGED <<config, fn_call, handlerVars, routerVars>>

\* main, lines 205-214: controller.start() returns and the event loop runs,
\* or it raises and the controller is stopped.
MainStart ==
    /\ fn_result = Main("constructed", "constructed")
    /\ fn_result' = IF fn_call.starts
                    THEN Main("serving", "started")
                    ELSE Main("returned", "stopped")
    /\ UNCHANGED <<config, fn_call, handlerVars, routerVars>>

StartNext ==
    \/ CallLoadFromYaml
    \/ MainLoad
    \/ MainCheck
    \/ MainConstruct
    \/ MainStart

StartSpec == StartInit /\ [][StartNext]_vars

(* ------------------------- functions on their own ---------------------- *)

\* The largest number of immediate children of the multipart container
\* that is resolved.
MaxParts == 3

\* A MIME part: its content type and its immediate children.
Part(type, parts) == [type |-> type, parts |-> parts]

\* `for parttype in (...)`: the types looked for, in descending order.
PartTypes == <<"multipart/alternative", "multipart/related", "text/html", "text/plain">>

\* A _getmultiparttext that takes the first child, by position, of any of
\* the four types (a mutation of getmultiparttext).
RECURSIVE getmultiparttext_by_position(_)
getmultiparttext_by_position(msg) ==
    IF msg.type \in {"multipart/related", "multipart/alternative"}
    THEN LET known == {i \in 1..Len(msg.parts) :
                          \E n \in 1..Len(PartTypes) : msg.parts[i].type = PartTypes[n]}
         IN  IF known = {}
             THEN [raised |-> "UnreadableMultipart", path |-> <<>>, part |-> msg]
             ELSE LET i == SetMin(known)
                      r == getmultiparttext_by_position(msg.parts[i])
                  IN  [r EXCEPT !.path = <<i>> \o @]
    ELSE [raised |-> "none", path |-> <<>>, part |-> msg]

\* smtp._getmultiparttext.  The result carries the part that is returned
\* and the positions that lead to it from msg, or the exception with the
\* container that raised it.
RECURSIVE getmultiparttext(_)
getmultiparttext(msg) ==
    IF msg.type \in {"multipart/related", "multipart/alternative"}
    THEN LET present == {n \in 1..Len(PartTypes) :
                            \E i \in 1..Len(msg.parts) : msg.parts[i].type = PartTypes[n]}
         IN  IF present = {}
             THEN [raised |-> "UnreadableMultipart", path |-> <<>>, part |-> msg]
             ELSE LET parttype == PartTypes[SetMin(present)]
                      i == SetMin({j \in 1..Len(msg.parts) : msg.parts[j].type = parttype})
                      r == getmultiparttext(msg.parts[i])
                  IN  [r EXCEPT !.path = <<i>> \o @]
    ELSE [raised |-> "none", path |-> <<>>, part |-> msg]

\* parsemessage, lines 245-247: the format of the body part.
body_format_of(part) == IF part.type = "text/html" THEN "html" ELSE "text"

\* The children of the containers that are resolved: parts that are not
\* multipart, and the containers of the tests (related with text and image,
\* alternative with text/plain then text/html), a container without
\* readable child, an empty one, and a related that holds an alternative.
PlainPart == Part("text/plain", <<>>)
HtmlPart == Part("text/html", <<>>)
JpegPart == Part("image/jpeg", <<>>)
AlternativePlainHtml == Part("multipart/alternative", <<PlainPart, HtmlPart>>)

Children ==
    {PlainPart, HtmlPart, JpegPart, AlternativePlainHtml,
     Part("multipart/related", <<PlainPart, JpegPart>>),
     Part("multipart/alternative", <<JpegPart>>),
     Part("multipart/related", <<>>),
     Part("multipart/related", <<JpegPart, AlternativePlainHtml, HtmlPart>>)}

\* The calls of _getmultiparttext.
MultipartCalls ==
    {[op |-> "getmultiparttext", msg |-> Part(t, l)] :
        t \in {"multipart/alternative", "multipart/related"},
        l \in UNION {[1..k -> Children] : k \in 0..MaxParts}}

\* The largest number of pieces a template is written from.
MaxPieces == 2

Digits == <<"0", "1", "2", "3", "4", "5", "6", "7", "8", "9">>

\* string.Template.idpattern, [_a-z][_a-z0-9]* without regard to case: the
\* first character of an identifier, and a character of an identifier.
IdStart(c) ==
    \/ c = "_"
    \/ \E i \in 1..26 : c = LowerChars[i] \/ c = UpperChars[i]

IdChar(c) == IdStart(c) \/ \E i \in 1..10 : c = Digits[i]

\* The length of the longest identifier that begins str; 0 when none does.
IdLen(str) ==
    IF str = <<>> \/ ~IdStart(str[1]) THEN 0
    ELSE SetMax({n \in 1..Len(str) : \A i \in 1..n : IdChar(str[i])})

\* A substitution that drops the placeholders it does not know (a mutation
\* of Substitute).
SubstituteOrDrop(mapping, ident, written) ==
    IF ident \in DOMAIN mapping THEN mapping[ident] ELSE <<>>

\* The value of a placeholder: the value of its name in the mapping, or
\* the placeholder as it is written.
Substitute(mapping, ident, written) ==
    IF ident \in DOMAIN mapping THEN mapping[ident] ELSE written

\* string.Template.safe_substitute: "$$" gives "$"; "$name" and "${name}"
\* give the value of name, and stay as written when the mapping has no such
\* name; any other "$" stays.  One pass from left to right; a value that
\* was put in is not read again.
RECURSIVE safe_substitute(_, _)
safe_substitute(template, mapping) ==
    IF template = <<>> THEN <<>>
    ELSE IF Head(template) # "$"
    THEN <<Head(template)>> \o safe_substitute(Tail(template), mapping)
    ELSE IF Len(template) >= 2 /\ template[2] = "$"
    THEN <<"$">> \o safe_substitute(Slice(template, 3, Len(template)), mapping)
    ELSE IF IdLen(Tail(template)) > 0
    THEN Substitute(mapping, Slice(template, 2, 1 + IdLen(Tail(template))),
                    Slice(template, 1, 1 + IdLen(Tail(template))))
         \o safe_substitute(Slice(template, 2 + IdLen(Tail(template)), Len(template)),
                            mapping)
    ELSE IF /\ Len(template) >= 2
            /\ template[2] = "{"
            /\ IdLen(Slice(template, 3, Len(template))) > 0
            /\ Len(template) >= 3 + IdLen(Slice(template, 3, Len(template)))
            /\ template[3 + IdLen(Slice(template, 3, Len(template)))] = "}"
    THEN Substitute(mapping,
                    Slice(template, 3, 2 + IdLen(Slice(template, 3, Len(template)))),
                    Slice(template, 1, 3 + IdLen(Slice(template, 3, Len(template)))))
         \o safe_substitute(Slice(template,
                                  4 + IdLen(Slice(template, 3, Len(template))),
                                  Len(template)),
                            mapping)
    ELSE <<"$">> \o safe_substitute(Tail(template), mapping)

\* _Key.__str__
key_str(k) == k.user \o <<"@">> \o k.domain

\* _Key.as_configured
as_configured(k) == IF k.domain = DefaultDomain THEN k.user ELSE key_str(k)

\* str(rcpt.notify_type)
NotifyTypeText(ntype) ==
    IF ntype = "success" THEN SeveritySuccess
    ELSE IF ntype = "warning" THEN SeverityWarning
    ELSE IF ntype = "failure" THEN SeverityFailure
    ELSE SeverityInfo

\* The names of the template variables.
VarSubject == <<"s", "u", "b", "j", "e", "c", "t">>
VarFrom == <<"f", "r", "o", "m">>
VarBody == <<"b", "o", "d", "y">>
VarTo == <<"t", "o">>
VarConfig == <<"c", "o", "n", "f", "i", "g">>
VarType == <<"t", "y", "p", "e">>

\* The subject, sender and body of the email that is rendered.
TextSubject == <<"T", "e", "s", "t">>
TextFrom == <<"a", "@", "b", ".", "c", "o", "m">>
TextBody == <<"H", "i">>

\* `mapping` of email_to_apprise (and of EmailNotification.submit).
template_mapping(rcpt) ==
    [v \in {VarSubject, VarFrom, VarBody, VarTo, VarConfig, VarType} |->
        IF v = VarSubject THEN TextSubject
        ELSE IF v = VarFrom THEN TextFrom
        ELSE IF v = VarBody THEN TextBody
        ELSE IF v = VarTo THEN key_str(rcpt.key)
        ELSE IF v = VarConfig THEN as_configured(rcpt.key)
        ELSE NotifyTypeText(rcpt.notify_type)]

\* The pieces the templates are written from: the text of the piece and
\* what it stands for.  "verbatim" pieces are text, placeholders of names
\* that are no variable ("$unknown", "$Subject") and "$" that begin no
\* placeholder; every piece begins with "$" or " ", so that an identifier
\* ends where its piece ends.
Pieces ==
    { [text |-> <<" ", "(", "x", ")">>, kind |-> "verbatim"],
      [text |-> <<"$">> \o VarSubject, kind |-> "subject"],
      [text |-> <<"$", "{">> \o VarFrom \o <<"}">>, kind |-> "from"],
      [text |-> <<"$">> \o VarBody, kind |-> "body"],
      [text |-> <<"$">> \o VarTo, kind |-> "to"],
      [text |-> <<"$", "{">> \o VarConfig \o <<"}">>, kind |-> "config"],
      [text |-> <<"$">> \o VarType, kind |-> "type"],
      [text |-> <<"$", "$">>, kind |-> "escaped"],
      [text |-> <<"$", "u", "n", "k", "n", "o", "w", "n">>, kind |-> "verbatim"],
      [text |-> <<"$", "S", "u", "b", "j", "e", "c", "t">>, kind |-> "verbatim"],
      [text |-> <<"$", "{", "t", "o">>, kind |-> "verbatim"],
      [text |-> <<"$", " ">>, kind |-> "verbatim"] }

\* The recipients the templates are rendered for: the decoded key and
\* severity, with the texts of user@domain and of the key as configured.
RenderRecipients ==
    {[key |-> Key(StrTest, DefaultDomain), notify_type |-> n,
      to |-> AddrTest, configured |-> StrTest] : n \in {"info", "failure"}}
    \cup
    {[key |-> Key(StrUser, StrExampleCom), notify_type |-> n,
      to |-> StrUser \o <<"@">> \o StrExampleCom,
      configured |-> StrUser \o <<"@">> \o StrExampleCom] : n \in {"warning"}}
    \cup
    {[key |-> Key(<<"u">>, <<"x", ".">> \o DefaultDomain), notify_type |-> n,
      to |-> <<"u", "@", "x", ".">> \o DefaultDomain,
      configured |-> <<"u", "@", "x", ".">> \o DefaultDomain] : n \in {"success"}}

\* The text of some pieces, one after the other.
RECURSIVE TemplateText(_)
TemplateText(pieces) ==
    IF pieces = <<>> THEN <<>> ELSE Head(pieces).text \o TemplateText(Tail(pieces))

\* The calls title_template.safe_substitute(mapping) and
\* body_template.safe_substitute(mapping).
RenderCalls ==
    {[op |-> "safe_substitute", template |-> TemplateText(l), pieces |-> l,
      rcpt |-> [key |-> r.key, notify_type |-> r.notify_type], expected |-> r] :
        l \in UNION {[1..k -> Pieces] : k \in 0..MaxPieces}, r \in RenderRecipients}

(* --------------------------- BasicAuthenticator ------------------------ *)

\* The largest number of bytes in a login or a password a client sends.
MaxBytes == 2

\* The bytes a client sends: "a" (0x61), and the two bytes of the UTF-8
\* encoding of e-acute (0xC3 0xA9), each of which is invalid on its own.
ClientBytes == {97, 195, 169}

\* The character with code point cp; e-acute (U+00E9) is written "E9".
Chr(cp) == IF cp = 97 THEN "a" ELSE IF cp = 233 THEN "E9" ELSE "?"

\* bytes.decode("utf-8") with strict errors, for one- and two-byte sequences:
\* the text, or UnicodeDecodeError.
RECURSIVE decode_utf8(_)
decode_utf8(bytes) ==
    IF bytes = <<>> THEN [raised |-> FALSE, text |-> <<>>]
    ELSE IF Head(bytes) < 128
    THEN LET rest == decode_utf8(Tail(bytes))
         IN  IF rest.raised THEN rest
             ELSE [raised |-> FALSE, text |-> <<Chr(Head(bytes))>> \o rest.text]
    ELSE IF /\ Head(bytes) \in 194..223
            /\ Len(bytes) >= 2
            /\ bytes[2] \in 128..191
    THEN LET rest == decode_utf8(Tail(Tail(bytes)))
         IN  IF rest.raised THEN rest
             ELSE [raised |-> FALSE,
                   text |-> <<Chr((Head(bytes) - 192) * 64 + (bytes[2] - 128))>>
                               \o rest.text]
    ELSE [raised |-> TRUE, text |-> <<>>]

\* AuthResult(success, handled) as the authenticator returns it, or the
\* exception that leaves it; with them the logins of the authenticator after
\* the call.
AuthResult(success, handled, logins) ==
    [kind |-> "return", success |-> success, handled |-> handled, logins |-> logins]

AuthRaise(logins) ==
    [kind |-> "raise", success |-> FALSE, handled |-> FALSE, logins |-> logins]

\* BasicAuthenticator.__call__ that takes every LoginPassword whose login is
\* configured.
authenticate_any_password(logins, mechanism, auth_data) ==
    IF mechanism \notin {"LOGIN", "PLAIN"} THEN AuthResult(FALSE, FALSE, logins)
    ELSE IF auth_data.type # "LoginPassword" THEN AuthResult(FALSE, FALSE, logins)
    ELSE LET username == decode_utf8(auth_data.login)
             password == decode_utf8(auth_data.password)
         IN  IF username.raised \/ password.raised THEN AuthRaise(logins)
             ELSE AuthResult(username.text \in DOMAIN logins, TRUE, logins)

\* BasicAuthenticator.__call__(server, session, envelope, mechanism, auth_data):
\* logins.get(username) is None for an unknown username, and None is not equal
\* to a str.
authenticate(logins, mechanism, auth_data) ==
    IF mechanism \notin {"LOGIN", "PLAIN"} THEN AuthResult(FALSE, FALSE, logins)
    ELSE IF auth_data.type # "LoginPassword" THEN AuthResult(FALSE, FALSE, logins)
    ELSE LET username == decode_utf8(auth_data.login)
         IN  IF username.raised THEN AuthRaise(logins)
             ELSE LET password == decode_utf8(auth_data.password)
                  IN  IF password.raised THEN AuthRaise(logins)
                      ELSE AuthResult(/\ username.text \in DOMAIN logins
                                      /\ logins[username.text] = password.text,
                                      TRUE, logins)

\* The logins of a configuration: any of the two usernames, each with one of
\* two passwords.
LoginNames == {<<"a">>, <<"E9">>}
LoginPasswords == {<<"a">>, <<"a", "a">>}
LoginMappings == UNION {[names -> LoginPasswords] : names \in SUBSET LoginNames}

\* What a client supplies: a mechanism the server offers or another one, and
\* LoginPassword credentials or credentials of another type.
ByteStrings == UNION {[1..k -> ClientBytes] : k \in 0..MaxBytes}
Credentials ==
    {[type |-> "LoginPassword", login |-> l, password |-> p] :
        l \in ByteStrings, p \in ByteStrings}
    \cup {[type |-> "bytes", login |-> <<>>, password |-> <<>>]}
AuthCalls ==
    {[op |-> "authenticate", logins |-> m, mechanism |-> mech, auth_data |-> c] :
        m \in LoginMappings, mech \in {"LOGIN", "PLAIN", "CRAM-MD5"},
        c \in Credentials}

FunctionInit ==
    /\ config = Senders
    /\ fn_call \in MultipartCalls \cup RenderCalls \cup AuthCalls
    /\ fn_result = NoCall
    /\ HandlerIdle
    /\ RouterIdle

CallGetMultipartText ==
    /\ fn_call.op = "getmultiparttext"
    /\ fn_result = NoCall
    /\ fn_result' = [op |-> "getmultiparttext", value |-> getmultiparttext(fn_call.msg)]
    /\ UNCHANGED <<config, fn_call, handlerVars, routerVars>>

CallSafeSubstitute ==
    /\ fn_call.op = "safe_substitute"
    /\ fn_result = NoCall
    /\ fn_result' = [op |-> "safe_substitute",
                     value |-> safe_substitute(fn_call.template,
                                               template_mapping(fn_call.rcpt))]
    /\ UNCHANGED <<config, fn_call, handlerVars, routerVars>>

CallAuthenticate ==
    /\ fn_call.op = "authenticate"
    /\ fn_result = NoCall
    /\ fn_result' = [op |-> "authenticate",
                     value |-> authenticate(fn_call.logins, fn_call.mechanism,
                                            fn_call.auth_data)]
    /\ UNCHANGED <<config, fn_call, handlerVars, routerVars>>

FunctionNext ==
    \/ CallGetMultipartText
    \/ CallSafeSubstitute
    \/ CallAuthenticate

FunctionSpec == FunctionInit /\ [][FunctionNext]_vars

(* ------------------------------ properties ----------------------------- *)

Reply250 == "250 OK"
Reply450 == "450 failed to send notification"

\* The task that owns the object of a temp file.
FileTask(f) == f[1][1]

\* The objects task t holds.
ObjectsOf(t) == {tasks[t].attachbase[i] : i \in 1..Len(tasks[t].attachbase)}

\* gather's outcome when its children finish in the order of `results`: the
\* first exception, or the list of results.
RECURSIVE GatherOutcome(_)
GatherOutcome(results) ==
    IF results = <<>> THEN "result"
    ELSE IF Head(results) # "ok" THEN Head(results)
    ELSE GatherOutcome(Tail(results))

\* C1: handle_DATA's reply aggregates all submissions: once a reply is given,
\* it is 450 if the notifier returned false for some recipient, and it is
\* 250 only if the notifier returned true for every recipient.
C1_ReplyAggregatesSubmissions ==
    reply # "none" =>
        /\ (\E t \in TaskIds : tasks[t].result = "AppriseNotifyFailure")
              => reply = Reply450
        /\ reply = Reply250 => \A t \in TaskIds : tasks[t].result = "ok"

\* A state C1 is about: the notifier has returned true, false, true and the
\* handler has replied.
C1_Witness ==
    /\ Len(tasks) = 3
    /\ tasks[1].result = "ok"
    /\ tasks[2].result = "AppriseNotifyFailure"
    /\ tasks[3].result = "ok"
    /\ reply = Reply450

\* C1 when no notifier raises: the aggregation of true and false outcomes.
C1_AggregatesWhenNoNotifierRaises ==
    (reply # "none" /\ \A t \in TaskIds : tasks[t].result # "NotifierError") =>
        /\ (\E t \in TaskIds : tasks[t].result = "AppriseNotifyFailure")
              => reply = Reply450
        /\ reply = Reply250 => \A t \in TaskIds : tasks[t].result = "ok"

\* C2: handle_DATA gives its reply (250 or 450) only when every submission
\* it started has completed.
C2_ReplyAfterAllSubmissions ==
    reply \in {Reply250, Reply450} => AllDone(tasks)

\* A state C2 is about: the handler has replied 450 while a submission is
\* still inside the notifier.
C2_Witness ==
    /\ reply = Reply450
    /\ \E t \in TaskIds : tasks[t].pc = "notifying"

\* C3: when submit has finished, on every exit path, every temp file its
\* attachments acquired has been released exactly once: none is left, and
\* no release was attempted on a file already gone.
C3_AttachmentsReleased ==
    /\ failedDeletes = 0
    /\ \A t \in TaskIds :
          tasks[t].pc = "done" => ~ \E f \in fs : FileTask(f) = t

\* A state C3 is about: submit has left through an exception of the notifier
\* and a temp file of that submission still exists.
C3_Witness ==
    \E t \in TaskIds :
        /\ tasks[t].result = "NotifierError"
        /\ \E f \in fs : FileTask(f) = t

\* C3 on the two exit paths where the notifier returns.
C3_ReleasedWhenNotifierReturns ==
    /\ failedDeletes = 0
    /\ \A t \in TaskIds :
          tasks[t].result \in {"ok", "AppriseNotifyFailure"}
              => ~ \E f \in fs : FileTask(f) = t

\* C4: an exception raised by the notifier is absorbed like a false return:
\* no exception escapes handle_DATA, and the reply is 450.
C4_NotifierExceptionAbsorbed ==
    /\ reply # "raise NotifierError"
    /\ (reply # "none" /\ \E t \in TaskIds : tasks[t].result = "NotifierError")
          => reply = Reply450

\* A state C4 is about: the exception of a notifier has left handle_DATA.
C4_Witness ==
    /\ reply = "raise NotifierError"
    /\ \E t \in TaskIds : tasks[t].result = "NotifierError"

\* C5: the reply does not depend on the order in which the submissions
\* complete: when all have completed, the reply given is the reply for every
\* completion order of the same outcomes.
C5_ReplyOrderIndependent ==
    (phase = "REPLIED" /\ tasks # <<>> /\ AllDone(tasks)) =>
        \A p \in Permutations(TaskIds) :
            DataReply(GatherOutcome([i \in TaskIds |-> tasks[p[i]].result]))
                = reply

\* A state C5 is about: a false return and an exception in one transaction.
C5_Witness ==
    /\ phase = "REPLIED"
    /\ AllDone(tasks)
    /\ \E t \in TaskIds : tasks[t].result = "AppriseNotifyFailure"
    /\ \E t \in TaskIds : tasks[t].result = "NotifierError"

\* C5 when no notifier raises.
C5_OrderIndependentWhenNoNotifierRaises ==
    (phase = "REPLIED" /\ tasks # <<>> /\ AllDone(tasks)
       /\ \A t \in TaskIds : tasks[t].result # "NotifierError") =>
        \A p \in Permutations(TaskIds) :
            DataReply(GatherOutcome([i \in TaskIds |-> tasks[p[i]].result]))
                = reply

\* C6: handle_RCPT replies 550 when the address cannot be decoded, 551 when
\* the decoded key matches no configured sender and 250 OK otherwise; the
\* address is appended to envelope.rcpt_tos in the 250 case only, and a 550
\* or 551 reply leaves envelope.rcpt_tos as it was.
C6_RcptReplyAndEnvelope ==
    lastRcpt.reply # "none" =>
        LET rcpt      == parsercpt(lastRcpt.address)
            decodes   == rcpt.raised = "none"
            configured == decodes /\ get_sender(config, rcpt.key) # NoSender
        IN  /\ ~decodes =>
                  /\ lastRcpt.reply = "550 not a valid mailrise recipient"
                  /\ rcpt_tos = lastRcpt.before
            /\ (decodes /\ ~configured) =>
                  /\ lastRcpt.reply
                        = "551 recipient does not exist in configuration file"
                  /\ rcpt_tos = lastRcpt.before
            /\ configured =>
                  /\ lastRcpt.reply = "250 OK"
                  /\ rcpt_tos = Append(lastRcpt.before, lastRcpt.address)

\* A state C6 is about: an unconfigured address was refused with 551 after
\* two addresses had been accepted.
C6_Witness ==
    /\ lastRcpt.address = AddrNobody
    /\ lastRcpt.reply = "551 recipient does not exist in configuration file"
    /\ rcpt_tos = <<AddrTest, AddrTheFoxWarning>>

\* C7: every address in envelope.rcpt_tos decodes and matches a configured
\* sender, so handle_DATA meets no RecipientError when it decodes the
\* recipients again and no submission fails its `assert sender is not None`.
C7_AcceptedRecipientsRoutable ==
    /\ \A i \in 1..Len(rcpt_tos) :
          /\ Recipients[rcpt_tos[i]].raised = "none"
          /\ get_sender(config, Recipients[rcpt_tos[i]].key) # NoSender
    /\ reply # "raise RecipientError"
    /\ \A t \in TaskIds : tasks[t].result # "AssertionError"

\* A state C7 is about: after refused and accepted RCPT commands, handle_DATA
\* has decoded the recipients and every submission has looked up its sender.
C7_Witness ==
    /\ rcpt_tos = <<AddrTheFoxWarning, AddrTest, AddrTheFoxWarning>>
    /\ phase = "DATA"
    /\ AllStarted(tasks)
    /\ tasks[1].rcpt = [key |-> Key(<<"t", "h", "e", "f", "o", "x">>,
                                    <<"e", "x", "a", "m", "p", "l", "e", ".",
                                      "c", "o", "m">>),
                        notify_type |-> "warning"]

\* C8: in one DATA transaction the notifier is invoked exactly once per entry
\* of envelope.rcpt_tos: never twice for one entry, and when the transaction
\* is over every entry has had its own submission.
C8_OneSubmissionPerRecipient ==
    /\ \A t \in TaskIds : tasks[t].notify_calls <= 1
    /\ (phase = "REPLIED" /\ AllDone(tasks)) =>
          /\ Len(tasks) = Len(rcpt_tos)
          /\ \A i \in 1..Len(rcpt_tos) :
                /\ tasks[i].notify_calls = 1
                /\ tasks[i].rcpt.key = parsercpt(rcpt_tos[i]).key

\* A state C8 is about: the transaction is over, two recipients resolved to
\* the same sender, and one submission failed.
C8_Witness ==
    /\ Len(tasks) = 2
    /\ phase = "REPLIED"
    /\ rcpt_tos = <<AddrTest, AddrTest>>
    /\ AllDone(tasks)
    /\ tasks[1].result = "AppriseNotifyFailure"
    /\ tasks[1].notify_calls = 1
    /\ tasks[2].notify_calls = 1

\* C8 for the transactions whose message could be read.
C8_OncePerRecipientWhenMessageReadable ==
    /\ \A t \in TaskIds : tasks[t].notify_calls <= 1
    /\ (phase = "REPLIED" /\ AllDone(tasks) /\ reply # "raise UnboundLocalError") =>
          /\ Len(tasks) = Len(rcpt_tos)
          /\ \A i \in 1..Len(rcpt_tos) :
                /\ tasks[i].notify_calls = 1
                /\ tasks[i].rcpt.key = parsercpt(rcpt_tos[i]).key

\* C9: attachment resources are owned by one submission: a running
\* submission holds one object of its own per attachment of the email, no
\* object is held by two submissions, and every temp file belongs to the
\* object of one submission only.
C9_AttachmentsExclusivelyOwned ==
    /\ \A t \in TaskIds :
          tasks[t].pc = "notifying" =>
              /\ Len(tasks[t].attachbase) = Len(notification.attachments)
              /\ Cardinality(ObjectsOf(t)) = Len(tasks[t].attachbase)
    /\ \A t, u \in TaskIds : t # u => ObjectsOf(t) \cap ObjectsOf(u) = {}
    /\ \A f \in fs : \A t \in TaskIds : f[1] \in ObjectsOf(t) => FileTask(f) = t

\* A state C9 is about: two submissions of one email with an attachment are
\* inside the notifier, and each has downloaded the attachment.
C9_Witness ==
    /\ Len(tasks) >= 2
    /\ tasks[1].pc = "notifying"
    /\ tasks[2].pc = "notifying"
    /\ \E f \in fs : FileTask(f) = 1
    /\ \E f \in fs : FileTask(f) = 2

\* C10: the submissions are started without waiting for one another (the
\* first step of a task can be taken as soon as the tasks before it have
\* taken theirs, finished or not), and no submission is cancelled when
\* another fails: a submission inside the notifier can still complete.
C10_StartedTogetherNeverCancelled ==
    \A t \in TaskIds :
        /\ tasks[t].pc # "cancelled"
        /\ (tasks[t].pc = "created" /\ \A u \in 1..(t - 1) : tasks[u].pc # "created")
              => ENABLED SubmitStart(t)
        /\ tasks[t].pc = "notifying" => ENABLED NotifierEnds(t)

\* C10, as a property of the fair behaviours: every submission of the
\* transaction runs to completion.
C10_EverySubmissionCompletes ==
    \A t \in 1..MaxRcpt :
        []((t \in TaskIds) => <>(t \in TaskIds /\ tasks[t].pc = "done"))

\* A state C10 is about: one submission has failed and handle_DATA has
\* replied while another submission is still inside the notifier.
C10_Witness ==
    /\ phase = "REPLIED"
    /\ \E t \in TaskIds : tasks[t].result \in {"AppriseNotifyFailure", "NotifierError"}
    /\ \E t \in TaskIds : tasks[t].pc = "notifying" /\ tasks[t].attachbase # <<>>

PositionsUpTo(n, S) ==
    SelectSeq([i \in 1..n |-> i], LAMBDA i : email_msg.to[i] \in S)

\* The positions the generator has yielded for, and has logged.
YieldedPositions == [k \in 1..Len(yielded) |-> yielded[k].index]
LoggedPositions == [k \in 1..Len(logged) |-> logged[k].index]

\* The addresses that decode and match a sender, and the ones that do not.
RoutableAddresses == {AddrTest, AddrTheFoxWarning}
SkippedAddresses == {AddrBad, AddrNobody}

\* The address at email.to[k] was skipped with the log entry of its defect.
LoggedAsItShould(k) ==
    LET a == email_msg.to[logged[k].index]
    IN  /\ a = AddrBad => logged[k].msg = "Not a valid Mailrise address"
        /\ a = AddrNobody => logged[k].msg = "Recipient is not configured"

PrefixGlob(name, pat) ==
    IF pat # <<>> /\ pat[Len(pat)] = "*"
    THEN /\ Len(name) >= Len(pat) - 1
         /\ \A i \in 1..(Len(pat) - 1) : name[i] = pat[i]
    ELSE name = pat

\* The pairs of the registry whose user and domain patterns both match.
MatchingPairs(k) ==
    {i \in 1..Len(config) :
        /\ PrefixGlob(k.user, config[i].pattern.user)
        /\ PrefixGlob(k.domain, config[i].pattern.domain)}

\* C13: get_sender returns the first pair, in registration order, whose user
\* and domain patterns both match the key, also when later pairs match too
\* (for "the*@*", "*@*" and {thequickbrownfox, example.com} the first), and
\* None when no pair matches.
C13_GetSenderFirstMatch ==
    fn_result.op = "get_sender" =>
        LET k    == fn_call.key
            r    == fn_result.value
            hits == MatchingPairs(k)
        IN  /\ hits = {} => r = NoSender
            /\ hits # {} => (r \in hits /\ \A j \in hits : r <= j)
            /\ (config = RegistryTheThenAll /\ k = Key(StrFox, StrExampleCom))
                  => (hits = {1, 2} /\ r = 1)

\* A state C13 is about: both pairs of "*@*", "the*@*" match the key and the
\* lookup has returned the first.
C13_Witness ==
    /\ fn_result.op = "get_sender"
    /\ config = RegistryAllThenThe
    /\ fn_call.key = Key(StrFox, StrExampleCom)
    /\ MatchingPairs(fn_call.key) = {1, 2}
    /\ fn_result.value = 1

\* C14: a pair matches when the user matches the user pattern and the domain
\* matches the domain pattern, each on its own and with letter case: the
\* config key "*" matches on the domain mailrise.xyz only, "*@*" matches
\* every key, "the*@*" matches the users that begin with "the".
C14_MatchesUserAndDomain ==
    fn_result.op = "get_sender" =>
        LET k == fn_call.key
            r == fn_result.value
        IN  /\ (r # NoSender) <=>
                   \E i \in 1..Len(config) :
                       /\ PrefixGlob(k.user, config[i].pattern.user)
                       /\ PrefixGlob(k.domain, config[i].pattern.domain)
            /\ config = RegistryStar => ((r = 1) <=> (k.domain = DefaultDomain))
            /\ config = RegistryAll => r = 1
            /\ config = RegistryThe => ((r = 1) <=> (k.user \in {StrFox, StrThe}))
            /\ config = RegistryUpperThe => ((r = 1) <=> (k.user = StrUpperFox))
            /\ (config = RegistryThe /\ k = Key(StrUser, StrExampleCom))
                  => r = NoSender

\* A state C14 is about: the config key "*" was looked up with a key of
\* another domain and nothing was found.
C14_Witness ==
    /\ fn_result.op = "get_sender"
    /\ config = RegistryStar
    /\ fn_call.key = Key(StrAnything, StrExampleCom)
    /\ fn_result.value = NoSender

\* A call of parsercpt or of the router's _parsercpt has returned or raised.
Decoded == fn_result.op \in {"parsercpt", "router_parsercpt"}

\* The exception of the function that was called.
DecodeError ==
    IF fn_call.op = "parsercpt" THEN "RecipientError" ELSE "ValueError"

\* The local parts that are not empty and not quoted.
PlainLocalParts == {<<"u">>, <<"u", ".", "v">>}

IsLowerCase(str) ==
    \A i \in 1..Len(str) : \A j \in 1..26 : str[i] # UpperChars[j]

\* C15: for user.severity@domain with a severity of info, success, warning
\* or failure, parsercpt returns the key {user, domain in lower case} and
\* that severity; for user@domain it returns the same key and info.
C15_DecodesKeyAndSeverity ==
    (/\ Decoded
     /\ fn_call.local \in PlainLocalParts
     /\ fn_call.suffix.lower
     /\ fn_call.tail.domain # <<>>) =>
        /\ fn_result.value.raised = "none"
        /\ fn_result.value.key = Key(fn_call.local, fn_call.tail.lowered)
        /\ fn_result.value.notify_type = fn_call.suffix.ntype

\* A state C15 is about: "N <u.v.failure@D.X>" has been decoded.
C15_Witness ==
    /\ Decoded
    /\ fn_call.addr = <<"N", " ", "<", "u", ".", "v", ".", "f", "a", "i", "l",
                        "u", "r", "e", "@", "D", ".", "X", ">">>
    /\ fn_result.value.notify_type = "failure"
    /\ fn_result.value.key = Key(<<"u", ".", "v">>, <<"d", ".", "x">>)

\* C16: a severity suffix in any letter case is removed from the user and
\* gives its severity.
C16_SuffixInAnyCase ==
    (/\ Decoded
     /\ fn_call.local # <<>>
     /\ fn_call.suffix.text # <<>>
     /\ fn_call.tail.domain # <<>>) =>
        /\ fn_result.value.raised = "none"
        /\ fn_result.value.key.user = fn_call.local
        /\ fn_result.value.notify_type = fn_call.suffix.ntype

\* A state C16 is about: "u.WARNING@d.x" has been decoded.
C16_Witness ==
    /\ Decoded
    /\ fn_call.addr = <<"u", ".", "W", "A", "R", "N", "I", "N", "G", "@", "d",
                        ".", "x">>
    /\ fn_result.value.raised = "none"
    /\ fn_result.value.key.user = <<"u">>

\* What holds of C16: the suffix is removed in any letter case, and it gives
\* its severity when it is written in lower case, info otherwise.
C16_SuffixRemovedInAnyCase ==
    (/\ Decoded
     /\ fn_call.local # <<>>
     /\ fn_call.suffix.text # <<>>
     /\ fn_call.tail.domain # <<>>) =>
        /\ fn_result.value.raised = "none"
        /\ fn_result.value.key.user = fn_call.local
        /\ fn_result.value.notify_type =
              IF fn_call.suffix.lower THEN fn_call.suffix.ntype ELSE "info"

\* C17: a key that parsercpt returns has a user and a domain that are not
\* empty, and a domain in lower case; an address whose local part is only a
\* severity suffix is rejected.
C17_KeyPartsNotEmpty ==
    (Decoded /\ fn_result.value.raised = "none") =>
        /\ fn_result.value.key.user # <<>>
        /\ fn_result.value.key.domain # <<>>
        /\ IsLowerCase(fn_result.value.key.domain)

\* A state C17 is about: ".warning@D.X" has been decoded.
C17_Witness ==
    /\ Decoded
    /\ fn_call.addr = <<".", "w", "a", "r", "n", "i", "n", "g", "@", "D", ".", "X">>
    /\ fn_result.value.raised = "none"

\* What holds of C17: the domain of a key is not empty and in lower case.
C17_KeyDomainLowerCase ==
    (Decoded /\ fn_result.value.raised = "none") =>
        /\ fn_result.value.key.domain # <<>>
        /\ IsLowerCase(fn_result.value.key.domain)

\* C18: for an address without '@' or with nothing after the '@', parsercpt
\* raises RecipientError (the router's _parsercpt ValueError) and gives no
\* key.
C18_NoDomainIsRejected ==
    (Decoded /\ fn_call.tail.domain = <<>>) =>
        /\ fn_result.value.raised = DecodeError
        /\ fn_result.value.key = NoKey

\* A state C18 is about: parsercpt has raised for "u.v.info", which has no
\* '@'.
C18_Witness ==
    /\ fn_result.op = "parsercpt"
    /\ fn_call.addr = <<"u", ".", "v", ".", "i", "n", "f", "o">>
    /\ fn_result.value.raised = "RecipientError"

\* A call of _parse_simple_key or of _parsekey has returned or raised.
KeyParsed == fn_result.op \in {"parse_simple_key", "parsekey"}

\* C19: a bare key without '@' and without '.' becomes {key, mailrise.xyz};
\* a bare key with a '.' raises ConfigFileError; a key user@domain whose
\* user has a '.' raises ConfigFileError; user@Example.com becomes
\* {user, example.com}.
C19_ConfigKeyForms ==
    KeyParsed =>
        LET u == fn_call.user
            t == fn_call.tail
            r == fn_result.value
        IN  /\ (t.ats = 0 /\ ~u.periods) =>
                  (r.raised = "none" /\ r.key = Key(u.text, DefaultDomain))
            /\ (t.ats = 0 /\ u.periods) =>
                  (r.raised = "ConfigFileError" /\ r.key = NoKey)
            /\ (t.ats = 1 /\ u.periods) =>
                  (r.raised = "ConfigFileError" /\ r.key = NoKey)
            /\ (t.ats = 1 /\ ~u.periods /\ u.user # <<>> /\ t.domain # <<>>) =>
                  (r.raised = "none" /\ r.key = Key(u.user, t.lowered))

\* A state C19 is about: the key user@Example.com has been parsed.
C19_Witness ==
    /\ KeyParsed
    /\ fn_call.str = StrUser \o <<"@">>
                        \o <<"E", "x", "a", "m", "p", "l", "e", ".", "c", "o", "m">>
    /\ fn_result.value.raised = "none"
    /\ fn_result.value.key = Key(StrUser, StrExampleCom)

\* C20: a key with '@' is accepted only when the whole string is one
\* address user@domain with a user and a domain that are not empty, and its
\* key is then made of that user and that domain; a key with an empty user,
\* an empty domain or more than one '@' raises ConfigFileError.
C20_MalformedKeyRejected ==
    (KeyParsed /\ fn_call.tail.ats >= 1) =>
        LET u == fn_call.user
            t == fn_call.tail
            r == fn_result.value
        IN  /\ r.raised = "none" =>
                  /\ t.ats = 1
                  /\ u.user # <<>>
                  /\ t.domain # <<>>
                  /\ r.key = Key(u.user, t.lowered)
            /\ (t.ats > 1 \/ u.user = <<>> \/ t.domain = <<>>) =>
                  r.raised = "ConfigFileError"

\* A state C20 is about: the key u@b@c has been parsed.
C20_Witness ==
    /\ KeyParsed
    /\ fn_call.str = <<"u", "@", "b", "@", "c">>
    /\ fn_result.value.raised = "none"

\* What holds of C20: a key with exactly one '@' is accepted only with a
\* user and a domain that are not empty, and its key is made of both.
C20_OneAtKeyWellFormed ==
    (KeyParsed /\ fn_call.tail.ats = 1) =>
        LET u == fn_call.user
            t == fn_call.tail
            r == fn_result.value
        IN  /\ r.raised = "none" =>
                  /\ u.user # <<>>
                  /\ t.domain # <<>>
                  /\ r.key = Key(u.user, t.lowered)
            /\ (u.user = <<>> \/ t.domain = <<>>) =>
                  r.raised = "ConfigFileError"

\* C21: a registry without senders is never put into service:
\* load_from_yaml raises ConfigFileError for an empty `configs` mapping (a
\* router it returns has at least one sender), and main returns without
\* constructing or starting the controller when the configuration it
\* loaded has no senders.
C21_NoSendersNeverServed ==
    /\ fn_result.op = "load_from_yaml" =>
          /\ fn_call.node.keys = <<>> => fn_result.value.raised = "ConfigFileError"
          /\ fn_result.value.raised = "none" => Len(fn_result.value.senders) >= 1
    /\ fn_result.op = "main" =>
          /\ fn_result.controller # "none" =>
                (Len(config) >= 1 /\ Len(fn_call.node.keys) >= 1)
          /\ fn_call.node.keys = <<>> =>
                (fn_result.pc \in {"loaded", "returned"} /\ config = <<>>)

\* A state C21 is about: main has loaded an empty `configs` mapping and has
\* returned; no controller was constructed.
C21_Witness ==
    /\ fn_call.op = "main"
    /\ fn_call.node = [mapping |-> TRUE, keys |-> <<>>]
    /\ fn_call.encryption = "ok"
    /\ fn_result = Main("returned", "none")

\* The formats a sender can configure.
ConfiguredFormats == {"text", "html", "markdown"}

\* C22: the body format of every notification that is produced is the
\* format the matched sender configures, when it configures one, and the
\* format detected for the email body otherwise; the detected format never
\* replaces a configured one.
C22_SenderFormatBeforeDetected ==
    \A k \in 1..Len(yielded) :
        LET configured == config[yielded[k].sender].body_format
            address    == email_msg.to[yielded[k].index]
        IN  /\ configured \in ConfiguredFormats
                  => yielded[k].body_format = configured
            /\ configured \notin ConfiguredFormats
                  => yielded[k].body_format = email_msg.body_format
            /\ (config = RouterSendersPlain /\ address = AddrTheFoxWarning)
                  => yielded[k].body_format = "html"
            /\ (config = RouterSendersPlain /\ address = AddrTest)
                  => yielded[k].body_format = email_msg.body_format
            /\ (config = RouterSendersFormats /\ address = AddrTest)
                  => yielded[k].body_format = "markdown"

\* A state C22 is about: for an html email, the sender that configures text
\* and the sender that configures markdown have each produced a
\* notification in their own format.
C22_Witness ==
    /\ config = RouterSendersFormats
    /\ email_msg.body_format = "html"
    /\ Len(yielded) = 2
    /\ yielded[1].body_format = "text"
    /\ yielded[2].body_format = "markdown"

\* The rank of a content type in the order of the search: 1 for
\* multipart/alternative down to 4 for text/plain, 5 for any other type.
TypeRank(type) ==
    IF type = "multipart/alternative" THEN 1
    ELSE IF type = "multipart/related" THEN 2
    ELSE IF type = "text/html" THEN 3
    ELSE IF type = "text/plain" THEN 4
    ELSE 5

\* C23: on a multipart/alternative or multipart/related container,
\* _getmultiparttext goes into the first child of the highest-ranking type
\* among multipart/alternative, multipart/related, text/html, text/plain,
\* wherever that child stands, and resolves it in the same way; an
\* alternative with text/plain then text/html gives the html part, whose
\* format is html; a container without a child of the four types raises
\* UnreadableMultipart.
C23_MultipartPriority ==
    fn_result.op = "getmultiparttext" =>
        LET msg    == fn_call.msg
            r      == fn_result.value
            ranked == {i \in 1..Len(msg.parts) : TypeRank(msg.parts[i].type) <= 4}
        IN  /\ ranked = {} =>
                  (r.raised = "UnreadableMultipart" /\ r.part = msg /\ r.path = <<>>)
            /\ ranked # {} =>
                  /\ r.path # <<>>
                  /\ Head(r.path) \in ranked
                  /\ \A j \in ranked :
                        \/ TypeRank(msg.parts[j].type)
                              > TypeRank(msg.parts[Head(r.path)].type)
                        \/ /\ TypeRank(msg.parts[j].type)
                                 = TypeRank(msg.parts[Head(r.path)].type)
                           /\ j >= Head(r.path)
                  /\ TypeRank(msg.parts[Head(r.path)].type) >= 3 =>
                        /\ r.raised = "none"
                        /\ r.path = <<Head(r.path)>>
                        /\ r.part = msg.parts[Head(r.path)]
                  /\ msg.parts[Head(r.path)] = AlternativePlainHtml =>
                        /\ r.raised = "none"
                        /\ r.path = <<Head(r.path), 2>>
                        /\ r.part = HtmlPart
            /\ msg = AlternativePlainHtml =>
                  /\ r.raised = "none"
                  /\ r.part = HtmlPart
                  /\ body_format_of(r.part) = "html"
            /\ r.raised = "none" => TypeRank(r.part.type) \in {3, 4}

\* A state C23 is about: in a related container with a text/plain part, a
\* text/html part and then an alternative, the alternative was entered and
\* its html part returned.
C23_Witness ==
    /\ fn_result.op = "getmultiparttext"
    /\ fn_call.msg = Part("multipart/related",
                          <<PlainPart, HtmlPart, AlternativePlainHtml>>)
    /\ fn_result.value.raised = "none"
    /\ fn_result.value.path = <<3, 2>>
    /\ body_format_of(fn_result.value.part) = "html"

\* What a piece of a template stands for in the call.
PieceValue(piece) ==
    IF piece.kind = "subject" THEN TextSubject
    ELSE IF piece.kind = "from" THEN TextFrom
    ELSE IF piece.kind = "body" THEN TextBody
    ELSE IF piece.kind = "to" THEN fn_call.expected.to
    ELSE IF piece.kind = "config" THEN fn_call.expected.configured
    ELSE IF piece.kind = "type" THEN NotifyTypeText(fn_call.expected.notify_type)
    ELSE IF piece.kind = "escaped" THEN <<"$">>
    ELSE piece.text

RECURSIVE Rendered(_)
Rendered(pieces) ==
    IF pieces = <<>> THEN <<>> ELSE PieceValue(Head(pieces)) \o Rendered(Tail(pieces))

\* C24: safe substitution replaces exactly the variables subject, from,
\* body, to, config and type; a placeholder of any other name stays as it
\* is written and nothing raises; `to` is user@domain of the decoded key,
\* `config` is `to` without "@mailrise.xyz" when the domain is
\* mailrise.xyz and `to` otherwise, `type` is the decoded severity.
C24_SafeSubstitution ==
    fn_result.op = "safe_substitute" =>
        /\ fn_result.value = Rendered(fn_call.pieces)
        /\ template_mapping(fn_call.rcpt)[VarTo] = fn_call.expected.to
        /\ template_mapping(fn_call.rcpt)[VarConfig] = fn_call.expected.configured

\* A state C24 is about: "$unknown${config}" has been rendered for the key
\* {test, mailrise.xyz}: "$unknowntest".
C24_Witness ==
    /\ fn_result.op = "safe_substitute"
    /\ fn_call.template = <<"$", "u", "n", "k", "n", "o", "w", "n", "$", "{", "c",
                            "o", "n", "f", "i", "g", "}">>
    /\ fn_call.rcpt.key = Key(StrTest, DefaultDomain)
    /\ fn_result.value = <<"$", "u", "n", "k", "n", "o", "w", "n", "t", "e", "s", "t">>

\* C25: while the submissions of a transaction exist, no step changes the
\* sender configuration or the parsed email (its fields and the length and
\* content of its attachment list), so every submission reads the same
\* values.
C25_SharedStateUnchanged ==
    [][tasks # <<>> => (config' = config /\ notification' = notification)]_vars

\* A state C25 is about: of the three submissions of an email with an
\* attachment, one has failed, one is inside the notifier with its
\* attachment downloaded, one has not begun; configuration and email are
\* as handle_DATA read them.
C25_Witness ==
    /\ phase = "DATA"
    /\ Len(tasks) = 3
    /\ tasks[1].result = "AppriseNotifyFailure"
    /\ tasks[2].pc = "notifying"
    /\ tasks[3].pc = "created"
    /\ \E f \in fs : FileTask(f) = 2
    /\ notification.attachments = <<Bridge>>
    /\ config = Senders

QuotedU == <<"\"", "u", "\"">>

\* C26: a local part that is in double quotes as a whole loses the quotes,
\* and a severity suffix inside the quotes is removed and gives the
\* severity ("u"@d, "u.sev"@d: user u); when only what precedes the suffix
\* is quoted ("u".sev@d), the suffix is removed and gives the severity and
\* the quotes stay in the user.
C26_QuotedLocalParts ==
    (/\ Decoded
     /\ fn_call.suffix.lower
     /\ fn_call.tail.domain # <<>>) =>
        /\ (fn_call.quoted /\ fn_call.local # <<>>) =>
              /\ fn_result.value.raised = "none"
              /\ fn_result.value.key = Key(fn_call.local, fn_call.tail.lowered)
              /\ fn_result.value.notify_type = fn_call.suffix.ntype
        /\ (~fn_call.quoted /\ fn_call.local = QuotedU) =>
              /\ fn_result.value.raised = "none"
              /\ fn_result.value.key.user =
                    IF fn_call.suffix.text = <<>> THEN <<"u">> ELSE QuotedU
              /\ fn_result.value.notify_type = fn_call.suffix.ntype

\* A state C26 is about: "u.success"@D.X, in quotes as a whole, has been
\* decoded to the user u and the severity success.
C26_Witness ==
    /\ Decoded
    /\ fn_call.addr = <<"\"", "u", ".", "s", "u", "c", "c", "e", "s", "s", "\"",
                        "@", "D", ".", "X">>
    /\ fn_result.value.key = Key(<<"u">>, <<"d", ".", "x">>)
    /\ fn_result.value.notify_type = "success"

\* A state C26 is about, too: "u".success@d.x has been decoded and the
\* quotes are part of the user.
C26_WitnessPrefixQuoted ==
    /\ Decoded
    /\ fn_call.addr = QuotedU \o <<".", "s", "u", "c", "c", "e", "s", "s", "@",
                                  "d", ".", "x">>
    /\ fn_result.value.key.user = QuotedU
    /\ fn_result.value.notify_type = "success"

\* C27: when handle_DATA returns its reply, 250 or 450, no temp file of an
\* attachment of the transaction exists any more.
C27_NoTempFileAtReply ==
    [][(phase = "DATA" /\ phase' = "REPLIED" /\ reply' \in {Reply250, Reply450})
          => fs' = {}]_vars

\* A state C27 is about: handle_DATA has returned 450 after the failure of
\* one submission, while another submission is inside the notifier and the
\* temp file of its attachment exists.
C27_Witness ==
    /\ phase = "REPLIED"
    /\ reply = Reply450
    /\ \E t \in TaskIds :
          /\ tasks[t].pc = "notifying"
          /\ \E f \in fs : FileTask(f) = t

\* What holds of C27: no temp file exists when, and after, handle_DATA has
\* returned 250.
C27_NoTempFileAt250 == reply = Reply250 => fs = {}

\* The temp files of object o that exist.
FilesOf(o) == {f \in fs : f[1] = o}

\* C28: after any calls of download() and invalidate(), an AttachMailrise
\* has at most one temp file, the one it refers to; download() removes the
\* file of the download before and creates a new one; invalidate() leaves
\* no file and no reference, and changes nothing, without a failure, on an
\* object that has no file.
C28_AtMostOneTempFile ==
    /\ \A o \in DOMAIN heap :
          /\ Cardinality(FilesOf(o)) <= 1
          /\ heap[o].mrfile = NoFile => FilesOf(o) = {}
          /\ heap[o].mrfile # NoFile => FilesOf(o) = {TempFile(o, heap[o].mrfile)}
    /\ fn_call.op = "download" =>
          LET o == fn_call.object
              previous == fn_call.before.heap[o].mrfile
          IN  /\ heap[o].mrfile # NoFile
              /\ TempFile(o, heap[o].mrfile) \notin fn_call.before.fs
              /\ previous # NoFile => TempFile(o, previous) \notin fs
    /\ fn_call.op = "invalidate" =>
          LET o == fn_call.object
          IN  /\ heap[o].mrfile = NoFile
              /\ FilesOf(o) = {}
              /\ failedDeletes = fn_call.before.failedDeletes
              /\ fn_call.before.heap[o].mrfile = NoFile
                    => World(heap, fs, failedDeletes) = fn_call.before

\* A state C28 is about: after two downloads and an invalidate(), a second
\* invalidate() of the same object has been called.
C28_Witness ==
    /\ fn_call.op = "invalidate"
    /\ fn_call.before.heap[fn_call.object].mrfile = NoFile
    /\ heap[fn_call.object].downloads = 2
    /\ fs = {}

\* The first text in the body that the pattern "ok" matches, without regard
\* to case; <<>> when there is none.
FirstMatchOfOk ==
    IF email_msg.body = BodyOk THEN <<"O", "K">>
    ELSE IF email_msg.body = BodyOkTwice THEN <<"O", "k">>
    ELSE <<>>

\* The address is routed to the sender that has the body_pattern "ok".
HasBodyPattern(address) == config = RouterSendersPattern /\ address = AddrTest

\* C29: for a sender with a body_pattern, the body of the notification is
\* the text of the first match of the pattern in the email body; when the
\* pattern matches nothing, the generator raises ValueError: that
\* recipient and the later ones get no notification, and the notifications
\* yielded before stand.
C29_BodyPatternFirstMatchOrRaise ==
    router_pc # "idle" =>
        /\ \A k \in 1..Len(yielded) :
              /\ yielded[k].index < router_i
              /\ yielded[k].body =
                    IF HasBodyPattern(email_msg.to[yielded[k].index])
                    THEN FirstMatchOfOk
                    ELSE email_msg.body
              /\ HasBodyPattern(email_msg.to[yielded[k].index])
                    => FirstMatchOfOk # <<>>
        /\ (/\ router_pc = "running"
            /\ router_i <= Len(email_msg.to)
            /\ HasBodyPattern(email_msg.to[router_i])
            /\ FirstMatchOfOk = <<>>)
              => RouterOutcome(config, email_msg, router_i).kind = "raise"
        /\ router_pc = "raised" =>
              /\ router_i <= Len(email_msg.to)
              /\ HasBodyPattern(email_msg.to[router_i])
              /\ FirstMatchOfOk = <<>>
              /\ YieldedPositions = PositionsUpTo(router_i - 1, RoutableAddresses)
              /\ ~ENABLED RouterNext

\* A state C29 is about: the generator has yielded for the first address
\* and has raised at the second, whose sender's body_pattern matches
\* nothing in the body; the third address, which is routable, gets nothing.
C29_Witness ==
    /\ config = RouterSendersPattern
    /\ email_msg.to = <<AddrTheFoxWarning, AddrTest, AddrTheFoxWarning>>
    /\ email_msg.body = BodyDown
    /\ router_pc = "raised"
    /\ router_i = 2
    /\ Len(yielded) = 1
    /\ yielded[1].index = 1

\* A state C29 is about, too: of the two matches of "ok" in "Ok, ok" the
\* body of the notification is the first.
C29_WitnessFirstMatch ==
    /\ config = RouterSendersPattern
    /\ email_msg.body = BodyOkTwice
    /\ Len(yielded) = 1
    /\ email_msg.to[yielded[1].index] = AddrTest
    /\ yielded[1].body = <<"O", "k">>

\* str.encode("utf-8") of the characters of LoginNames and LoginPasswords.
RECURSIVE encode_utf8(_)
encode_utf8(text) ==
    IF text = <<>> THEN <<>>
    ELSE (IF Head(text) = "E9" THEN <<195, 169>> ELSE <<97>>)
            \o encode_utf8(Tail(text))

\* The bytes are the UTF-8 encoding of a text.
IsEncoding(bytes) ==
    \E text \in UNION {[1..k -> {"a", "E9"}] : k \in 0..Len(bytes)} :
        encode_utf8(text) = bytes

\* The call reached the comparison of the credentials: the mechanism is one of
\* LOGIN and PLAIN and the credentials are a LoginPassword.
AuthDispatched ==
    /\ fn_call.mechanism \in {"LOGIN", "PLAIN"}
    /\ fn_call.auth_data.type = "LoginPassword"

\* The supplied username is a configured login and the supplied password is
\* the configured one.
AuthCredentialsRight ==
    \E u \in DOMAIN fn_call.logins :
        /\ encode_utf8(u) = fn_call.auth_data.login
        /\ encode_utf8(fn_call.logins[u]) = fn_call.auth_data.password

\* C30: BasicAuthenticator answers every attempt with an AuthResult: success
\* exactly when the mechanism is LOGIN or PLAIN, the credentials are a
\* LoginPassword and the username and password are a configured pair; a
\* handled failure for an unknown username or a wrong password; failure with
\* handled=False for another mechanism or credential type; and the logins are
\* the same after the attempt.
C30_AuthenticatorAnswers ==
    fn_result.op = "authenticate" =>
        /\ fn_result.value.kind = "return"
        /\ fn_result.value.success <=> (AuthDispatched /\ AuthCredentialsRight)
        /\ fn_result.value.handled <=> AuthDispatched
        /\ fn_result.value.logins = fn_call.logins

\* An attempt with LOGIN and a LoginPassword whose login is the single byte
\* 0xC3 has been answered: with UnicodeDecodeError.
C30_Witness ==
    /\ fn_result.op = "authenticate"
    /\ fn_call.mechanism = "LOGIN"
    /\ fn_call.auth_data.type = "LoginPassword"
    /\ fn_call.auth_data.login = <<195>>
    /\ fn_result.value.kind = "raise"

\* What holds of BasicAuthenticator: the claim for credentials that are valid
\* UTF-8, an exception for a LoginPassword that is not, and the same logins
\* after every attempt.
C30_AuthenticatorDecodable ==
    fn_result.op = "authenticate" =>
        /\ fn_result.value.logins = fn_call.logins
        /\ ~AuthDispatched =>
              /\ fn_result.value.kind = "return"
              /\ ~fn_result.value.success
              /\ ~fn_result.value.handled
        /\ (/\ AuthDispatched
            /\ IsEncoding(fn_call.auth_data.login)
            /\ IsEncoding(fn_call.auth_data.password)) =>
              /\ fn_result.value.kind = "return"
              /\ fn_result.value.handled
              /\ fn_result.value.success <=> AuthCredentialsRight
        /\ (/\ AuthDispatched
            /\ \/ ~IsEncoding(fn_call.auth_data.login)
               \/ ~IsEncoding(fn_call.auth_data.password)) =>
              fn_result.value.kind = "raise"

\* The configured login e-acute has authenticated with its password over
\* PLAIN.
C30_WitnessSuccess ==
    /\ fn_result.op = "authenticate"
    /\ fn_call.mechanism = "PLAIN"
    /\ fn_call.auth_data.login = <<195, 169>>
    /\ fn_result.value.kind = "return"
    /\ fn_result.value.success

\* A configured login with a wrong password, and an unknown username, have
\* been answered with a handled failure.
C30_WitnessWrongPassword ==
    /\ fn_result.op = "authenticate"
    /\ AuthDispatched
    /\ fn_call.auth_data.login = <<97>>
    /\ <<"a">> \in DOMAIN fn_call.logins
    /\ fn_call.auth_data.password = <<97>>
    /\ fn_call.logins[<<"a">>] = <<"a", "a">>
    /\ fn_result.value = AuthResult(FALSE, TRUE, fn_call.logins)

C30_WitnessUnknownUser ==
    /\ fn_result.op = "authenticate"
    /\ AuthDispatched
    /\ fn_call.auth_data.login = <<97>>
    /\ fn_call.logins = << >>
    /\ fn_result.value = AuthResult(FALSE, TRUE, fn_call.logins)

\* Another mechanism has been answered with an unhandled failure.
C30_WitnessNotHandled ==
    /\ fn_result.op = "authenticate"
    /\ fn_call.mechanism = "CRAM-MD5"
    /\ fn_call.auth_data.type = "LoginPassword"
    /\ fn_result.value = AuthResult(FALSE, FALSE, fn_call.logins)

====
